---- MODULE Spec2Model ----
(***************************************************************************)
(* Identity service of the catalog API (internal/identity/service.go):     *)
(* registration, e-mail verification, login, blocking and admin seeding,   *)
(* over a user store, a role store and a verification-code store.          *)
(* Every service call is one action; its collaborator calls are recorded   *)
(* in the order the code makes them.                                       *)
(***************************************************************************)
EXTENDS Integers, Sequences, FiniteSets, TLC

\* ---------------------------------------------------------------- bounds
MaxUsers == 2
MaxTime == 16

UserIDs == 1..MaxUsers
Emails == {"a@b.c"}
LoginEmails == Emails \cup {"x@y.z"}
FullNames == {"Test"}
Passwords == {"pw", "secret123"}
Codes == {"000000", "123456"}

\* ------------------------------------------------------------- constants
CodeTTL == 15
MinPasswordLen == 8

RoleAdmin == "admin"
RoleUser == "user"
RoleClient == "client"

UserStatusPendingVerification == "pending_verification"
UserStatusActive == "active"
UserStatusBlocked == "blocked"

Nil == "nil"
ErrEmailAlreadyRegistered == "email already registered"
ErrUserNotFound == "user not found"
ErrInvalidVerificationCode == "invalid verification code"
ErrRepositoryNotConfigured == "repository not configured"
ErrNotImplemented == "not implemented"
ErrInvalidCredentials == "invalid credentials"
\* errors of the collaborators (opaque infrastructure failures)
ErrStore == "store failure"
ErrNoRows == "no rows updated"
ErrHash == "hash failure"
ErrMismatch == "hash and password mismatch"
ErrGenerate == "code generation failure"
ErrSend == "send failed"
ErrToken == "token signing failure"

AllDeps == {"UserRepo", "RoleRepo", "PasswordHasher", "VerificationSender",
            "VerificationCodeProvider", "TokenProvider"}
DepsConfigs == {AllDeps,
                AllDeps \ {"VerificationSender", "VerificationCodeProvider"},
                AllDeps \ {"PasswordHasher", "RoleRepo"},
                {}}

\* the zero values Go returns next to an error
ZeroUser == [id |-> 0, email |-> "", fullName |-> "", passwordHash |-> "",
             role |-> "", status |-> "", isVerified |-> FALSE]
ZeroToken == [sub |-> 0, role |-> ""]

VARIABLES deps, users, roles, codes, now, last,
          validator, limiter, clock, issued, http,
          procs, rows, hub, conns
vars == <<deps, users, roles, codes, now, last,
          validator, limiter, clock, issued, http,
          procs, rows, hub, conns>>

\* ------------------------------------------------------- collaborators
\* PasswordHasher: Hash is one-way and injective on the passwords used,
\* Compare succeeds exactly on the hash of the given password.
Hash(password) == "bcrypt$" \o password
Compare(hash, password) == IF hash = Hash(password) THEN Nil ELSE ErrMismatch
dummyPasswordHash == "$2a$10$7EqJtq98hPqEX7fNZaFWoOHi4bxmC8lzQju0aDY9.6e2cqE8X4Fi."

\* TokenProvider.Generate: subject = user id, claim = role.
Generate(user) == [sub |-> user.id, role |-> user.role]

\* UserRepository.GetByEmail on the users table us.  A miss is reported as
\* ErrUserNotFound, the error Login tests for and the stub repository of the
\* service tests returns.
HasEmail(us, email) == \E id \in DOMAIN us : us[id].email = email
GetByEmail(us, email) ==
  IF HasEmail(us, email)
    THEN [err |-> Nil, user |-> us[CHOOSE id \in DOMAIN us : us[id].email = email]]
    ELSE [err |-> ErrUserNotFound, user |-> ZeroUser]

GetByID(us, id) ==
  IF id \in DOMAIN us THEN [err |-> Nil, user |-> us[id]]
                      ELSE [err |-> ErrUserNotFound, user |-> ZeroUser]

\* the store assigns the id of a new row
FreeIDs(us) == UserIDs \ DOMAIN us
NewID(us) == CHOOSE id \in FreeIDs(us) : \A o \in FreeIDs(us) : id <= o

\* UserRepository.CreateUser: the unique e-mail constraint yields the
\* conflict error, otherwise the row is inserted under a fresh id.
CreateUser_noUniqueEmail(us, user) ==
  LET created == [user EXCEPT !.id = NewID(us)]
  IN [err |-> Nil, user |-> created,
      users |-> [id \in DOMAIN us \cup {created.id} |->
                   IF id = created.id THEN created ELSE us[id]]]
CreateUser(us, user) ==
  IF HasEmail(us, user.email)
    THEN [err |-> ErrEmailAlreadyRegistered, user |-> ZeroUser, users |-> us]
    ELSE LET created == [user EXCEPT !.id = NewID(us)]
         IN [err |-> Nil, user |-> created,
             users |-> [id \in DOMAIN us \cup {created.id} |->
                          IF id = created.id THEN created ELSE us[id]]]

\* UPDATE users SET ... WHERE id = $n: an error when no row is affected.
SetVerification_dropped(us, id, verified) ==
  IF id \in DOMAIN us THEN [err |-> Nil, users |-> us]
                      ELSE [err |-> ErrNoRows, users |-> us]
SetVerification_activates(us, id, verified) ==
  IF id \in DOMAIN us
    THEN [err |-> Nil,
          users |-> [us EXCEPT ![id].isVerified = verified,
                               ![id].status = UserStatusActive]]
    ELSE [err |-> ErrNoRows, users |-> us]
SetVerification(us, id, verified) ==
  IF id \in DOMAIN us
    THEN [err |-> Nil, users |-> [us EXCEPT ![id].isVerified = verified]]
    ELSE [err |-> ErrNoRows, users |-> us]
UpdateStatus_toggle(us, id, status) ==
  IF id \in DOMAIN us
    THEN [err |-> Nil,
          users |-> [us EXCEPT ![id].status =
                       IF @ = status THEN UserStatusActive ELSE status]]
    ELSE [err |-> ErrNoRows, users |-> us]
UpdateStatus(us, id, status) ==
  IF id \in DOMAIN us
    THEN [err |-> Nil, users |-> [us EXCEPT ![id].status = status]]
    ELSE [err |-> ErrNoRows, users |-> us]

\* RoleRepository.EnsureRole: INSERT INTO roles ... ON CONFLICT DO NOTHING
EnsureRole(rs, role) == rs \cup {role}
\* RoleRepository.AssignRole: UPDATE users SET role = $1 WHERE id = $2
AssignRole_resetsVerification(us, id, role) ==
  IF id \in DOMAIN us
    THEN [err |-> Nil,
          users |-> [us EXCEPT ![id].role = role, ![id].isVerified = FALSE]]
    ELSE [err |-> ErrNoRows, users |-> us]
AssignRole(us, id, role) ==
  IF id \in DOMAIN us
    THEN [err |-> Nil, users |-> [us EXCEPT ![id].role = role]]
    ELSE [err |-> ErrNoRows, users |-> us]
\* UserRepository.UpdateUserProfile: UPDATE users SET full_name = $1
\* WHERE id = $2 RETURNING the row; no row is a scan error.
UpdateUserProfile(us, user) ==
  IF user.id \in DOMAIN us
    THEN LET row == [us[user.id] EXCEPT !.fullName = user.fullName]
         IN [err |-> Nil, user |-> row, users |-> [us EXCEPT ![user.id] = row]]
    ELSE [err |-> ErrNoRows, user |-> ZeroUser, users |-> us]

\* verification_codes: one row per user id
SaveVerificationCode(cs, id, code, expiresAt) ==
  [u \in DOMAIN cs \cup {id} |->
     IF u = id THEN [code |-> code, expiresAt |-> expiresAt] ELSE cs[u]]
DeleteVerificationCode(cs, id) == [u \in DOMAIN cs \ {id} |-> cs[u]]
GetVerificationCode(cs, id) ==
  IF id \in DOMAIN cs
    THEN [err |-> Nil, code |-> cs[id].code, expiresAt |-> cs[id].expiresAt]
    ELSE [err |-> ErrInvalidVerificationCode, code |-> "", expiresAt |-> 0]

\* transactional scope of the user store: writes are staged on a copy and
\* become durable on Commit; the deferred Rollback discards them otherwise.
BeginTx(us, cs) == [users |-> us, codes |-> cs]
TxCreateUser(tx, user) ==
  LET cr == CreateUser(tx.users, user)
  IN [err |-> cr.err, user |-> cr.user, tx |-> [tx EXCEPT !.users = cr.users]]
TxSaveVerificationCode(tx, id, code, expiresAt) ==
  [tx EXCEPT !.codes = SaveVerificationCode(tx.codes, id, code, expiresAt)]
Commit(tx) == [users |-> tx.users, codes |-> tx.codes]
Rollback(us, cs) == [users |-> us, codes |-> cs]

\* ------------------------------------------------------------- results
\* one collaborator call, as a call-recording stub would log it
Ev(call, id, s1, s2) == [call |-> call, id |-> id, s1 |-> s1, s2 |-> s2]
\* what a service call returns and leaves behind
Ret(err, user, token, calls, us, cs, rs) ==
  [err |-> err, user |-> user, token |-> token, calls |-> calls,
   users |-> us, codes |-> cs, roles |-> rs]
\* the input structs of the service, merged
In(email, password, fullName, userID, code) ==
  [email |-> email, password |-> password, fullName |-> fullName,
   userID |-> userID, code |-> code]

\* ------------------------------------------------------------- Login
\* consumePasswordHash: one comparison against the fixed dummy hash, whose
\* result is dropped.
consumePasswordHash_skipped(password) == <<>>
consumePasswordHash(password) == << Ev("Compare", 0, dummyPasswordHash, password) >>
\* the error Login returns for a failed lookup
lookupFailure_generic(err) == ErrInvalidCredentials
lookupFailure(err) == IF err = ErrUserNotFound THEN ErrInvalidCredentials ELSE err
\* the account states that are refused after a successful comparison
refused_unverifiedOnly(user) == ~user.isVerified
refused(user) == user.status = UserStatusBlocked \/ ~user.isVerified

\* fail names the collaborator call that fails in this call ("none": none).
Login(us, cs, rs, d, input, fail) ==
  IF "UserRepo" \notin d THEN
    Ret(ErrRepositoryNotConfigured, ZeroUser, ZeroToken, <<>>, us, cs, rs)
  ELSE IF "PasswordHasher" \notin d \/ "TokenProvider" \notin d THEN
    Ret(ErrNotImplemented, ZeroUser, ZeroToken, <<>>, us, cs, rs)
  ELSE
    LET look == IF fail = "GetByEmail" THEN [err |-> ErrStore, user |-> ZeroUser]
                ELSE GetByEmail(us, input.email)
        c1 == << Ev("GetByEmail", 0, input.email, "") >>
    IN IF look.err # Nil THEN
         Ret(lookupFailure(look.err), ZeroUser, ZeroToken,
             c1 \o consumePasswordHash(input.password), us, cs, rs)
       ELSE
         LET user == look.user
             c2 == Append(c1, Ev("Compare", 0, user.passwordHash, input.password))
             c3 == Append(c2, Ev("CheckStatus", user.id, "", ""))
             c4 == Append(c3, Ev("Generate", user.id, user.role, ""))
         IN IF Compare(user.passwordHash, input.password) # Nil THEN
              Ret(ErrInvalidCredentials, ZeroUser, ZeroToken, c2, us, cs, rs)
            ELSE IF refused(user) THEN
              Ret(ErrInvalidCredentials, ZeroUser, ZeroToken, c3, us, cs, rs)
            ELSE IF fail = "Generate" THEN
              Ret(ErrToken, ZeroUser, ZeroToken, c4, us, cs, rs)
            ELSE
              Ret(Nil, ZeroUser, Generate(user), c4, us, cs, rs)

\* ------------------------------------------------------------- register
\* the validation of the registration input
missingField_passwordUnchecked(input) == input.email = "" \/ input.fullName = ""
missingField(input) == input.email = "" \/ input.password = "" \/ input.fullName = ""

\* the branch taken when code generator and sender are configured
registerTx_sendAfterCommit(us, cs, rs, t, user, newCode, fail, c3) ==
  LET c4 == Append(c3, Ev("BeginTx", 0, "", ""))
      rb(c) == Append(c, Ev("Rollback", 0, "", ""))
      cr == TxCreateUser(BeginTx(us, cs), user)
      c5 == Append(c4, Ev("CreateUser", 0, user.email, user.role))
      c6 == Append(c5, Ev("GenerateCode", cr.user.id, "", ""))
      tx2 == TxSaveVerificationCode(cr.tx, cr.user.id, newCode, t + CodeTTL)
      c7 == Append(c6, Ev("SaveVerificationCode", cr.user.id, newCode, ""))
      c8 == Append(c7, Ev("Commit", 0, "", ""))
      c9 == Append(c8, Ev("SendVerification", 0, cr.user.email, newCode))
      done == Commit(tx2)
  IN IF fail = "BeginTx" THEN Ret(ErrStore, ZeroUser, ZeroToken, c4, us, cs, rs)
     ELSE IF fail = "CreateUser" THEN Ret(ErrStore, ZeroUser, ZeroToken, rb(c5), us, cs, rs)
     ELSE IF cr.err # Nil THEN Ret(cr.err, ZeroUser, ZeroToken, rb(c5), us, cs, rs)
     ELSE IF fail = "GenerateCode" THEN Ret(ErrGenerate, ZeroUser, ZeroToken, rb(c6), us, cs, rs)
     ELSE IF fail = "SaveVerificationCode" THEN Ret(ErrStore, ZeroUser, ZeroToken, rb(c7), us, cs, rs)
     ELSE IF fail = "Commit" THEN Ret(ErrStore, ZeroUser, ZeroToken, rb(c8), us, cs, rs)
     ELSE IF fail = "SendVerification" THEN
       Ret(ErrSend, ZeroUser, ZeroToken, rb(c9), done.users, done.codes, rs)
     ELSE Ret(Nil, cr.user, ZeroToken, rb(c9), done.users, done.codes, rs)
\* variants of the transactional branch
registerTx_noTx(us, cs, rs, t, user, newCode, fail, c3) ==
  LET c4 == Append(c3, Ev("BeginTx", 0, "", ""))
      rb(c) == Append(c, Ev("Rollback", 0, "", ""))
      cr == CreateUser(us, user)
      c5 == Append(c4, Ev("CreateUser", 0, user.email, user.role))
      c6 == Append(c5, Ev("GenerateCode", cr.user.id, "", ""))
      saved == SaveVerificationCode(cs, cr.user.id, newCode, t + CodeTTL)
      c7 == Append(c6, Ev("SaveVerificationCode", cr.user.id, newCode, ""))
      c8 == Append(c7, Ev("SendVerification", 0, cr.user.email, newCode))
      c9 == Append(c8, Ev("Commit", 0, "", ""))
  IN IF fail = "BeginTx" THEN Ret(ErrStore, ZeroUser, ZeroToken, c4, us, cs, rs)
     ELSE IF fail = "CreateUser" THEN Ret(ErrStore, ZeroUser, ZeroToken, rb(c5), us, cs, rs)
     ELSE IF cr.err # Nil THEN Ret(cr.err, ZeroUser, ZeroToken, rb(c5), us, cs, rs)
     ELSE IF fail = "GenerateCode" THEN
       Ret(ErrGenerate, ZeroUser, ZeroToken, rb(c6), cr.users, cs, rs)
     ELSE IF fail = "SaveVerificationCode" THEN
       Ret(ErrStore, ZeroUser, ZeroToken, rb(c7), cr.users, cs, rs)
     ELSE IF fail = "SendVerification" THEN
       Ret(ErrSend, ZeroUser, ZeroToken, rb(c8), us, cs, rs)
     ELSE IF fail = "Commit" THEN
       Ret(ErrStore, ZeroUser, ZeroToken, rb(c9), cr.users, saved, rs)
     ELSE Ret(Nil, cr.user, ZeroToken, rb(c9), cr.users, saved, rs)
registerTx_retry(us, cs, rs, t, user, newCode, fail, c3) ==
  LET c4 == Append(c3, Ev("BeginTx", 0, "", ""))
      rb(c) == Append(c, Ev("Rollback", 0, "", ""))
      cr == TxCreateUser(BeginTx(us, cs), user)
      c5 == Append(c4, Ev("CreateUser", 0, user.email, user.role))
      c6 == Append(c5, Ev("GenerateCode", cr.user.id, "", ""))
      tx2 == TxSaveVerificationCode(cr.tx, cr.user.id, newCode, t + CodeTTL)
      c7 == Append(c6, Ev("SaveVerificationCode", cr.user.id, newCode, ""))
      c8 == Append(c7, Ev("SendVerification", 0, cr.user.email, newCode))
      c8b == Append(c8, Ev("SendVerification", 0, cr.user.email, newCode))
      c9 == Append(c8, Ev("Commit", 0, "", ""))
      done == Commit(tx2)
  IN IF fail = "BeginTx" THEN Ret(ErrStore, ZeroUser, ZeroToken, c4, us, cs, rs)
     ELSE IF fail = "CreateUser" THEN Ret(ErrStore, ZeroUser, ZeroToken, rb(c5), us, cs, rs)
     ELSE IF cr.err # Nil THEN Ret(cr.err, ZeroUser, ZeroToken, rb(c5), us, cs, rs)
     ELSE IF fail = "GenerateCode" THEN Ret(ErrGenerate, ZeroUser, ZeroToken, rb(c6), us, cs, rs)
     ELSE IF fail = "SaveVerificationCode" THEN Ret(ErrStore, ZeroUser, ZeroToken, rb(c7), us, cs, rs)
     ELSE IF fail = "SendVerification" THEN Ret(ErrSend, ZeroUser, ZeroToken, rb(c8b), us, cs, rs)
     ELSE IF fail = "Commit" THEN Ret(ErrStore, ZeroUser, ZeroToken, rb(c9), us, cs, rs)
     ELSE Ret(Nil, cr.user, ZeroToken, rb(c9), done.users, done.codes, rs)
registerTx(us, cs, rs, t, user, newCode, fail, c3) ==
  LET c4 == Append(c3, Ev("BeginTx", 0, "", ""))
      rb(c) == Append(c, Ev("Rollback", 0, "", ""))
      tx0 == BeginTx(us, cs)
      cr == TxCreateUser(tx0, user)
      c5 == Append(c4, Ev("CreateUser", 0, user.email, user.role))
      created == cr.user
      c6 == Append(c5, Ev("GenerateCode", created.id, "", ""))
      exp == t + CodeTTL
      tx2 == TxSaveVerificationCode(cr.tx, created.id, newCode, exp)
      c7 == Append(c6, Ev("SaveVerificationCode", created.id, newCode, ""))
      c8 == Append(c7, Ev("SendVerification", 0, created.email, newCode))
      c9 == Append(c8, Ev("Commit", 0, "", ""))
      undone == Rollback(us, cs)
      done == Commit(tx2)
  IN IF fail = "BeginTx" THEN Ret(ErrStore, ZeroUser, ZeroToken, c4, us, cs, rs)
     ELSE IF fail = "CreateUser" THEN
       Ret(ErrStore, ZeroUser, ZeroToken, rb(c5), undone.users, undone.codes, rs)
     ELSE IF cr.err # Nil THEN
       Ret(cr.err, ZeroUser, ZeroToken, rb(c5), undone.users, undone.codes, rs)
     ELSE IF fail = "GenerateCode" THEN
       Ret(ErrGenerate, ZeroUser, ZeroToken, rb(c6), undone.users, undone.codes, rs)
     ELSE IF fail = "SaveVerificationCode" THEN
       Ret(ErrStore, ZeroUser, ZeroToken, rb(c7), undone.users, undone.codes, rs)
     ELSE IF fail = "SendVerification" THEN
       Ret(ErrSend, ZeroUser, ZeroToken, rb(c8), undone.users, undone.codes, rs)
     ELSE IF fail = "Commit" THEN
       Ret(ErrStore, ZeroUser, ZeroToken, rb(c9), undone.users, undone.codes, rs)
     ELSE Ret(Nil, created, ZeroToken, rb(c9), done.users, done.codes, rs)

register_roleBeforeLookup(us, cs, rs, d, t, input, role, newCode, fail) ==
  IF "PasswordHasher" \notin d \/ "RoleRepo" \notin d THEN
    Ret(ErrNotImplemented, ZeroUser, ZeroToken, <<>>, us, cs, rs)
  ELSE IF missingField(input) THEN
    Ret(ErrInvalidCredentials, ZeroUser, ZeroToken, <<>>, us, cs, rs)
  ELSE
    LET c1 == << Ev("EnsureRole", 0, role, "") >>
        rs2 == rs \cup {role}
        look == IF fail = "GetByEmail" THEN [err |-> ErrStore, user |-> ZeroUser]
                ELSE GetByEmail(us, input.email)
        c2 == Append(c1, Ev("GetByEmail", 0, input.email, ""))
        c3 == Append(c2, Ev("Hash", 0, input.password, ""))
        user == [id |-> 0, email |-> input.email, fullName |-> input.fullName,
                 passwordHash |-> Hash(input.password), role |-> role,
                 status |-> UserStatusPendingVerification, isVerified |-> FALSE]
    IN IF fail = "EnsureRole" THEN Ret(ErrStore, ZeroUser, ZeroToken, c1, us, cs, rs)
       ELSE IF look.err = Nil THEN
         Ret(ErrEmailAlreadyRegistered, ZeroUser, ZeroToken, c2, us, cs, rs2)
       ELSE IF fail = "Hash" THEN Ret(ErrHash, ZeroUser, ZeroToken, c3, us, cs, rs2)
       ELSE IF "VerificationCodeProvider" \in d /\ "VerificationSender" \in d THEN
         registerTx(us, cs, rs2, t, user, newCode, fail, c3)
       ELSE
         LET cr == CreateUser(us, user)
             c4 == Append(c3, Ev("CreateUser", 0, user.email, user.role))
         IN IF fail = "CreateUser" THEN Ret(ErrStore, ZeroUser, ZeroToken, c4, us, cs, rs2)
            ELSE IF cr.err # Nil THEN Ret(cr.err, ZeroUser, ZeroToken, c4, us, cs, rs2)
            ELSE Ret(Nil, cr.user, ZeroToken, c4, cr.users, cs, rs2)
register(us, cs, rs, d, t, input, role, newCode, fail) ==
  IF "PasswordHasher" \notin d \/ "RoleRepo" \notin d THEN
    Ret(ErrNotImplemented, ZeroUser, ZeroToken, <<>>, us, cs, rs)
  ELSE IF missingField(input) THEN
    Ret(ErrInvalidCredentials, ZeroUser, ZeroToken, <<>>, us, cs, rs)
  ELSE
    LET look == IF fail = "GetByEmail" THEN [err |-> ErrStore, user |-> ZeroUser]
                ELSE GetByEmail(us, input.email)
        c1 == << Ev("GetByEmail", 0, input.email, "") >>
        c2 == Append(c1, Ev("Hash", 0, input.password, ""))
        c3 == Append(c2, Ev("EnsureRole", 0, role, ""))
        rs2 == rs \cup {role}
        user == [id |-> 0, email |-> input.email, fullName |-> input.fullName,
                 passwordHash |-> Hash(input.password), role |-> role,
                 status |-> UserStatusPendingVerification, isVerified |-> FALSE]
    IN IF look.err = Nil THEN
         Ret(ErrEmailAlreadyRegistered, ZeroUser, ZeroToken, c1, us, cs, rs)
       ELSE IF fail = "Hash" THEN Ret(ErrHash, ZeroUser, ZeroToken, c2, us, cs, rs)
       ELSE IF fail = "EnsureRole" THEN Ret(ErrStore, ZeroUser, ZeroToken, c3, us, cs, rs)
       ELSE IF "VerificationCodeProvider" \in d /\ "VerificationSender" \in d THEN
         registerTx(us, cs, rs2, t, user, newCode, fail, c3)
       ELSE
         LET cr == CreateUser(us, user)
             c4 == Append(c3, Ev("CreateUser", 0, user.email, user.role))
         IN IF fail = "CreateUser" THEN Ret(ErrStore, ZeroUser, ZeroToken, c4, us, cs, rs2)
            ELSE IF cr.err # Nil THEN Ret(cr.err, ZeroUser, ZeroToken, c4, us, cs, rs2)
            ELSE Ret(Nil, cr.user, ZeroToken, c4, cr.users, cs, rs2)

RegisterClient_asAdmin(us, cs, rs, d, t, input, newCode, fail) ==
  IF "UserRepo" \notin d THEN
    Ret(ErrRepositoryNotConfigured, ZeroUser, ZeroToken, <<>>, us, cs, rs)
  ELSE register(us, cs, rs, d, t, input, RoleAdmin, newCode, fail)
RegisterClient(us, cs, rs, d, t, input, newCode, fail) ==
  IF "UserRepo" \notin d THEN
    Ret(ErrRepositoryNotConfigured, ZeroUser, ZeroToken, <<>>, us, cs, rs)
  ELSE register(us, cs, rs, d, t, input, RoleClient, newCode, fail)

RegisterStandardUser(us, cs, rs, d, t, input, newCode, fail) ==
  IF "UserRepo" \notin d THEN
    Ret(ErrRepositoryNotConfigured, ZeroUser, ZeroToken, <<>>, us, cs, rs)
  ELSE register(us, cs, rs, d, t, input, RoleUser, newCode, fail)

\* ------------------------------------------------------------ VerifyUser
\* time.Now().After(expiresAt)
expired_atDeadline(t, expiresAt) == t >= expiresAt
expired(t, expiresAt) == t > expiresAt
\* the comparison of the stored code with the submitted one
wrongCode_ownError(stored, given) == IF stored # given THEN "code mismatch" ELSE Nil
wrongCode(stored, given) == IF stored # given THEN ErrInvalidVerificationCode ELSE Nil

\* the regeneration made for an expired challenge; every error is dropped
resend(us, cs, d, t, userID, newCode, fail, c2) ==
  LET c3 == Append(c2, Ev("GenerateCode", userID, "", ""))
      c4 == Append(c3, Ev("SaveVerificationCode", userID, newCode, ""))
      c5 == Append(c4, Ev("GetByID", userID, "", ""))
      saved == SaveVerificationCode(cs, userID, newCode, t + CodeTTL)
      got == IF fail = "GetByID" THEN [err |-> ErrStore, user |-> ZeroUser]
             ELSE GetByID(us, userID)
      c6 == Append(c5, Ev("SendVerification", 0, got.user.email, newCode))
  IN IF ~("VerificationCodeProvider" \in d /\ "VerificationSender" \in d) THEN
       [calls |-> c2, codes |-> cs]
     ELSE IF fail = "GenerateCode" THEN [calls |-> c3, codes |-> cs]
     ELSE IF fail = "SaveVerificationCode" THEN [calls |-> c4, codes |-> cs]
     ELSE IF got.err # Nil THEN [calls |-> c5, codes |-> saved]
     ELSE [calls |-> c6, codes |-> saved]

VerifyUser(us, cs, rs, d, t, input, newCode, fail) ==
  IF "UserRepo" \notin d THEN
    Ret(ErrRepositoryNotConfigured, ZeroUser, ZeroToken, <<>>, us, cs, rs)
  ELSE IF input.code = "" THEN
    Ret(ErrInvalidVerificationCode, ZeroUser, ZeroToken, <<>>, us, cs, rs)
  ELSE
    LET got == IF fail = "GetVerificationCode"
                 THEN [err |-> ErrStore, code |-> "", expiresAt |-> 0]
                 ELSE GetVerificationCode(cs, input.userID)
        c1 == << Ev("GetVerificationCode", input.userID, "", "") >>
    IN IF got.err # Nil THEN Ret(got.err, ZeroUser, ZeroToken, c1, us, cs, rs)
       ELSE IF expired(t, got.expiresAt) THEN
         LET c2 == Append(c1, Ev("DeleteVerificationCode", input.userID, "", ""))
             cs2 == IF fail = "DeleteVerificationCode" THEN cs
                    ELSE DeleteVerificationCode(cs, input.userID)
             re == resend(us, cs2, d, t, input.userID, newCode, fail, c2)
         IN Ret(ErrInvalidVerificationCode, ZeroUser, ZeroToken, re.calls, us, re.codes, rs)
       ELSE IF wrongCode(got.code, input.code) # Nil THEN
         Ret(wrongCode(got.code, input.code), ZeroUser, ZeroToken, c1, us, cs, rs)
       ELSE
         LET sv == IF fail = "SetVerification" THEN [err |-> ErrStore, users |-> us]
                   ELSE SetVerification(us, input.userID, TRUE)
             c2 == Append(c1, Ev("SetVerification", input.userID, "", ""))
             c3 == Append(c2, Ev("DeleteVerificationCode", input.userID, "", ""))
         IN IF sv.err # Nil THEN Ret(sv.err, ZeroUser, ZeroToken, c2, us, cs, rs)
            ELSE IF fail = "DeleteVerificationCode" THEN
              Ret(ErrStore, ZeroUser, ZeroToken, c3, sv.users, cs, rs)
            ELSE Ret(Nil, ZeroUser, ZeroToken, c3, sv.users,
                     DeleteVerificationCode(cs, input.userID), rs)

\* ------------------------------------------------------------- BlockUser
BlockUser(us, cs, rs, d, input, fail) ==
  IF "UserRepo" \notin d THEN
    Ret(ErrRepositoryNotConfigured, ZeroUser, ZeroToken, <<>>, us, cs, rs)
  ELSE
    LET up == IF fail = "UpdateStatus" THEN [err |-> ErrStore, users |-> us]
              ELSE UpdateStatus(us, input.userID, UserStatusBlocked)
    IN Ret(up.err, ZeroUser, ZeroToken,
           << Ev("UpdateStatus", input.userID, UserStatusBlocked, "") >>, up.users, cs, rs)

\* ------------------------------------------------------------- SeedAdmin
seedAdmin_noLookup(us, cs, rs, d, seed, fail) ==
  IF seed.email = "" \/ seed.password = "" THEN
    Ret(Nil, ZeroUser, ZeroToken, <<>>, us, cs, rs)
  ELSE IF "PasswordHasher" \notin d \/ "RoleRepo" \notin d THEN
    Ret(ErrNotImplemented, ZeroUser, ZeroToken, <<>>, us, cs, rs)
  ELSE
    LET c2 == << Ev("Hash", 0, seed.password, "") >>
        c3 == Append(c2, Ev("EnsureRole", 0, RoleAdmin, ""))
        c4 == Append(c3, Ev("CreateUser", 0, seed.email, RoleAdmin))
        cr == CreateUser(us, [id |-> 0, email |-> seed.email, fullName |-> seed.fullName,
                              passwordHash |-> Hash(seed.password), role |-> RoleAdmin,
                              status |-> UserStatusActive, isVerified |-> TRUE])
    IN IF fail = "Hash" THEN Ret(ErrHash, ZeroUser, ZeroToken, c2, us, cs, rs)
       ELSE IF fail = "EnsureRole" THEN Ret(ErrStore, ZeroUser, ZeroToken, c3, us, cs, rs)
       ELSE IF fail = "CreateUser" THEN
         Ret(ErrStore, ZeroUser, ZeroToken, c4, us, cs, rs \cup {RoleAdmin})
       ELSE Ret(cr.err, ZeroUser, ZeroToken, c4, cr.users, cs, rs \cup {RoleAdmin})
seedAdmin(us, cs, rs, d, seed, fail) ==
  IF seed.email = "" \/ seed.password = "" THEN
    Ret(Nil, ZeroUser, ZeroToken, <<>>, us, cs, rs)
  ELSE IF "PasswordHasher" \notin d \/ "RoleRepo" \notin d THEN
    Ret(ErrNotImplemented, ZeroUser, ZeroToken, <<>>, us, cs, rs)
  ELSE
    LET look == IF fail = "GetByEmail" THEN [err |-> ErrStore, user |-> ZeroUser]
                ELSE GetByEmail(us, seed.email)
        c1 == << Ev("GetByEmail", 0, seed.email, "") >>
        c2 == Append(c1, Ev("Hash", 0, seed.password, ""))
        c3 == Append(c2, Ev("EnsureRole", 0, RoleAdmin, ""))
        c4 == Append(c3, Ev("CreateUser", 0, seed.email, RoleAdmin))
        rs2 == rs \cup {RoleAdmin}
        cr == CreateUser(us, [id |-> 0, email |-> seed.email, fullName |-> seed.fullName,
                              passwordHash |-> Hash(seed.password), role |-> RoleAdmin,
                              status |-> UserStatusActive, isVerified |-> TRUE])
    IN IF look.err = Nil THEN Ret(Nil, ZeroUser, ZeroToken, c1, us, cs, rs)
       ELSE IF fail = "Hash" THEN Ret(ErrHash, ZeroUser, ZeroToken, c2, us, cs, rs)
       ELSE IF fail = "EnsureRole" THEN Ret(ErrStore, ZeroUser, ZeroToken, c3, us, cs, rs)
       ELSE IF fail = "CreateUser" THEN Ret(ErrStore, ZeroUser, ZeroToken, c4, us, cs, rs2)
       ELSE Ret(cr.err, ZeroUser, ZeroToken, c4, cr.users, cs, rs2)

SeedAdmin(us, cs, rs, d, seed, fail) ==
  IF "UserRepo" \notin d THEN
    Ret(ErrRepositoryNotConfigured, ZeroUser, ZeroToken, <<>>, us, cs, rs)
  ELSE seedAdmin(us, cs, rs, d, seed, fail)

\* ------------------------------------------------------------ UpdateUser
\* the input structs of UpdateUser and UpdateUserRole, merged: actorID is
\* the UpdaterID or the AdminID
UpIn(userID, actorID, fullName, role) ==
  [email |-> "", password |-> "", fullName |-> fullName, userID |-> userID,
   code |-> "", actorID |-> actorID, role |-> role]

\* the full name UpdateUser hands to the store
applyFullName_always(user, fullName) == [user EXCEPT !.fullName = fullName]
applyFullName(user, fullName) ==
  IF fullName # "" THEN [user EXCEPT !.fullName = fullName] ELSE user

UpdateUser(us, cs, rs, d, input, fail) ==
  IF "UserRepo" \notin d THEN
    Ret(ErrRepositoryNotConfigured, ZeroUser, ZeroToken, <<>>, us, cs, rs)
  ELSE
    LET got == IF fail = "GetByID" THEN [err |-> ErrStore, user |-> ZeroUser]
               ELSE GetByID(us, input.userID)
        c1 == << Ev("GetByID", input.userID, "", "") >>
        user == applyFullName(got.user, input.fullName)
        c2 == Append(c1, Ev("UpdateUserProfile", user.id, user.fullName, ""))
        up == UpdateUserProfile(us, user)
    IN IF got.err # Nil THEN Ret(got.err, ZeroUser, ZeroToken, c1, us, cs, rs)
       ELSE IF fail = "UpdateUserProfile" THEN
         Ret(ErrStore, ZeroUser, ZeroToken, c2, us, cs, rs)
       ELSE Ret(up.err, up.user, ZeroToken, c2, up.users, cs, rs)

\* -------------------------------------------------------- UpdateUserRole
UpdateUserRole(us, cs, rs, d, input, fail) ==
  IF "UserRepo" \notin d \/ "RoleRepo" \notin d THEN
    Ret(ErrRepositoryNotConfigured, ZeroUser, ZeroToken, <<>>, us, cs, rs)
  ELSE
    LET c1 == << Ev("EnsureRole", 0, input.role, "") >>
        rs2 == EnsureRole(rs, input.role)
        c2 == Append(c1, Ev("AssignRole", input.userID, input.role, ""))
        as == IF fail = "AssignRole" THEN [err |-> ErrStore, users |-> us]
              ELSE AssignRole(us, input.userID, input.role)
        c3 == Append(c2, Ev("GetByID", input.userID, "", ""))
        got == IF fail = "GetByID" THEN [err |-> ErrStore, user |-> ZeroUser]
               ELSE GetByID(as.users, input.userID)
    IN IF fail = "EnsureRole" THEN Ret(ErrStore, ZeroUser, ZeroToken, c1, us, cs, rs)
       ELSE IF as.err # Nil THEN Ret(as.err, ZeroUser, ZeroToken, c2, us, cs, rs2)
       ELSE Ret(got.err, got.user, ZeroToken, c3, as.users, cs, rs2)

\* ------------------------------------------------------------ HTTP layer
StatusOK == 200
StatusNoContent == 204
StatusBadRequest == 400
StatusUnauthorized == 401
StatusForbidden == 403
StatusTooManyRequests == 429

\* NewIPRateLimiter(rate.Every(time.Minute/5), 5): one token every 12
\* seconds, burst 5; entries idle for 15 minutes are dropped by a cleanup
\* that runs at most every 5 minutes.  Times are in seconds.
Burst == 5
RefillInterval == 12
LimiterTTL == 900
CleanupInterval == 300

\* the keys the limiter can hold
IPs == {"192.0.2.1", "192.0.2.2"}
LimiterKeys == IPs \cup {"unknown"}

NewIPRateLimiter(t) == [clients |-> <<>>, nextCleanup |-> t + CleanupInterval]

maybeCleanup(l, t) ==
  IF t < l.nextCleanup THEN l
  ELSE LET kept == {k \in LimiterKeys :
                      k \in DOMAIN l.clients /\ ~(l.clients[k].lastUse < t - LimiterTTL)}
       IN [clients |-> [k \in kept |-> l.clients[k]],
           nextCleanup |-> t + CleanupInterval]

getLimiter(l, t, key) ==
  IF key \in DOMAIN l.clients THEN [l EXCEPT !.clients[key].lastUse = t]
  ELSE [l EXCEPT !.clients =
          [k \in {x \in LimiterKeys : x \in DOMAIN l.clients \/ x = key} |->
             IF k = key THEN [tokens |-> Burst, last |-> t, lastUse |-> t]
                        ELSE l.clients[k]]]

\* rate.Limiter: the tokens a bucket holds at time t, and Allow
Min(a, b) == IF a < b THEN a ELSE b
advance(cl, t) == Min(Burst, cl.tokens + (t - cl.last) \div RefillInterval)
LimiterAllow(l, t, key) ==
  LET tokens == advance(l.clients[key], t)
  IN IF tokens >= 1
       THEN [ok |-> TRUE,
             limiter |-> [l EXCEPT !.clients[key].tokens = tokens - 1,
                                   !.clients[key].last = t]]
       ELSE [ok |-> FALSE, limiter |-> l]

\* IPRateLimiter.Allow
Allow(l, t, key) == LimiterAllow(getLimiter(maybeCleanup(l, t), t, key), t, key)

\* RateLimitMiddleware: the key of a request is its client IP
limiterKey_shared(ip) == "unknown"
limiterKey(ip) == IF ip = "" THEN "unknown" ELSE ip

\* one step of the handler chain, as a recording stub would log it
Hop(call, a, b, s) == [call |-> call, a |-> a, b |-> b, s |-> s]

\* the Authorization header: absent, a bearer token the validator rejects,
\* or a bearer token the provider has signed
NoAuth == [kind |-> "none", token |-> ZeroToken]
Forged == [kind |-> "forged", token |-> ZeroToken]
Bearer(token) == [kind |-> "bearer", token |-> token]
ErrInvalidToken == "invalid token"
\* TokenValidator.Validate: the claims of a token signed by the provider
Validate(auth) ==
  IF auth.kind = "bearer"
    THEN [err |-> Nil, userID |-> auth.token.sub, role |-> auth.token.role]
    ELSE [err |-> ErrInvalidToken, userID |-> 0, role |-> ""]

\* the keys of the gin context; user id 0 is the empty string
NoKeys == [user_id |-> 0, role |-> "", hasRole |-> FALSE]
Request(route, ip, auth, id, email, password, fullName, role) ==
  [route |-> route, ip |-> ip, auth |-> auth, id |-> id, email |-> email,
   password |-> password, fullName |-> fullName, role |-> role]
NoRequest ==
  [req |-> Request("", "", NoAuth, 0, "", "", "", ""), status |-> 0, calls |-> <<>>]

\* what a middleware leaves: the request goes on or is answered
Pass(keys, calls) == [abort |-> FALSE, status |-> 0, keys |-> keys, calls |-> calls]
Abort(status, keys, calls) ==
  [abort |-> TRUE, status |-> status, keys |-> keys, calls |-> calls]

AuthMiddleware(req, keys, calls) ==
  LET v == Validate(req.auth)
      c1 == Append(calls, Hop("Validate", v.userID, 0, IF v.err = Nil THEN v.role ELSE v.err))
  IN IF req.auth.kind = "none" THEN Abort(StatusUnauthorized, keys, calls)
     ELSE IF v.err # Nil THEN Abort(StatusUnauthorized, keys, c1)
     ELSE Pass([user_id |-> v.userID, role |-> v.role, hasRole |-> TRUE], c1)

RoleMiddleware_anyRole(allowed, req, keys, calls) ==
  IF ~keys.hasRole THEN Abort(StatusForbidden, keys, calls)
  ELSE Pass(keys, calls)
RoleMiddleware(allowed, req, keys, calls) ==
  IF ~keys.hasRole THEN Abort(StatusForbidden, keys, calls)
  ELSE IF keys.role \notin allowed THEN Abort(StatusForbidden, keys, calls)
  ELSE Pass(keys, calls)

\* what a handler leaves: the response and, when the service was called
\* (op is not "none"), the call and its result
Out(status, calls, op, input, r) ==
  [status |-> status, calls |-> calls, op |-> op, input |-> input, r |-> r]
NoService(status, calls, us, cs, rs) ==
  Out(status, calls, "none", In("", "", "", 0, ""),
      Ret(Nil, ZeroUser, ZeroToken, <<>>, us, cs, rs))

\* IdentityHandler.Login
HandleLogin(us, cs, rs, d, req, keys, calls) ==
  LET input == In(req.email, req.password, "", 0, "")
      r == Login(us, cs, rs, d, input, "none")
      c1 == Append(calls, Hop("Login", 0, 0, req.email))
  IN IF req.email = "" \/ req.password = "" THEN
       NoService(StatusBadRequest, calls, us, cs, rs)
     ELSE Out(IF r.err # Nil THEN StatusUnauthorized ELSE StatusOK, c1, "Login", input, r)

\* IdentityHandler.UpdateUser: the route /users/me has no id parameter
HandleUpdateUser(us, cs, rs, d, req, keys, calls) ==
  LET userID == 0
      updaterID == keys.user_id
      input == UpIn(userID, updaterID, req.fullName, "")
      r == UpdateUser(us, cs, rs, d, input, "none")
      c1 == Append(calls, Hop("UpdateUser", userID, updaterID, req.fullName))
  IN Out(IF r.err # Nil THEN StatusBadRequest ELSE StatusOK, c1, "UpdateUser", input, r)

\* IdentityHandler.BlockUser: the context key admin_id is never set
HandleBlockUser(us, cs, rs, d, req, keys, calls) ==
  LET userID == req.id
      adminID == 0
      input == In("", "", "", userID, "")
      r == BlockUser(us, cs, rs, d, input, "none")
      c1 == Append(calls, Hop("BlockUser", userID, adminID, ""))
  IN Out(IF r.err # Nil THEN StatusBadRequest ELSE StatusNoContent, c1, "BlockUser", input, r)

\* IdentityHandler.UpdateUserRole
HandleUpdateUserRole(us, cs, rs, d, req, keys, calls) ==
  LET userID == req.id
      adminID == keys.user_id
      input == UpIn(userID, adminID, "", req.role)
      r == UpdateUserRole(us, cs, rs, d, input, "none")
      c1 == Append(calls, Hop("UpdateUserRole", userID, adminID, req.role))
  IN IF req.role = "" THEN NoService(StatusBadRequest, calls, us, cs, rs)
     ELSE Out(IF r.err # Nil THEN StatusBadRequest ELSE StatusOK, c1, "UpdateUserRole", input, r)

Handle(us, cs, rs, d, req, keys, calls) ==
  CASE req.route = "login" -> HandleLogin(us, cs, rs, d, req, keys, calls)
    [] req.route = "updateUser" -> HandleUpdateUser(us, cs, rs, d, req, keys, calls)
    [] req.route = "blockUser" -> HandleBlockUser(us, cs, rs, d, req, keys, calls)
    [] req.route = "updateUserRole" -> HandleUpdateUserRole(us, cs, rs, d, req, keys, calls)

\* RouterFactory.Build, the identity group: the public routes, the group
\* behind AuthMiddleware and, inside it, the group behind
\* RoleMiddleware("admin"); both are installed only with a TokenValidator
ProtectedRoutes == {"updateUser", "blockUser", "updateUserRole"}
AdminRoutes == {"blockUser", "updateUserRole"}

Chain(us, cs, rs, d, v, req, calls) ==
  LET auth == IF v /\ req.route \in ProtectedRoutes
                THEN AuthMiddleware(req, NoKeys, calls) ELSE Pass(NoKeys, calls)
      role == IF v /\ req.route \in AdminRoutes
                THEN RoleMiddleware({RoleAdmin}, req, auth.keys, auth.calls)
                ELSE Pass(auth.keys, auth.calls)
  IN IF auth.abort THEN NoService(auth.status, auth.calls, us, cs, rs)
     ELSE IF role.abort THEN NoService(role.status, role.calls, us, cs, rs)
     ELSE Handle(us, cs, rs, d, req, role.keys, role.calls)

\* ------------------------------------------------------- state machine
NoCall == [op |-> "none", input |-> In("", "", "", 0, ""), fail |-> "none",
           err |-> Nil, user |-> ZeroUser, token |-> ZeroToken, calls |-> <<>>]

\* the router in front of the service: built with a token validator, no
\* request served yet
NoRouter ==
  /\ validator = TRUE
  /\ limiter = NewIPRateLimiter(0)
  /\ clock = 0
  /\ issued = {}
  /\ http = NoRequest

\* no call in progress on the service, no WebSocket hub
Detached ==
  /\ procs = <<>>
  /\ rows = <<>>
  /\ hub = <<>>
  /\ conns = <<>>

Init ==
  /\ Detached
  /\ deps \in DepsConfigs
  /\ users = <<>>
  /\ roles = {}
  /\ codes = <<>>
  /\ now = 0
  /\ last = NoCall
  /\ NoRouter

\* fail names a call the handler makes; the call returned r: its writes are in the stores, its result is observed
Stored(op, input, fail, r) ==
  /\ fail = "none" \/ \E i \in DOMAIN r.calls : r.calls[i].call = fail
  /\ users' = r.users
  /\ codes' = r.codes
  /\ roles' = r.roles
  /\ last' = [op |-> op, input |-> input, fail |-> fail, err |-> r.err,
              user |-> r.user, token |-> r.token, calls |-> r.calls]
  /\ UNCHANGED <<deps, now>>
\* a call made on the service directly leaves the router alone
Returned(op, input, fail, r) ==
  /\ Stored(op, input, fail, r)
  /\ UNCHANGED <<validator, limiter, clock, issued, http>>
  /\ UNCHANGED <<procs, rows, hub, conns>>

RegisterInputs ==
  {In(e, p, n, 0, "") : e \in Emails, p \in Passwords, n \in FullNames}
    \cup {In("", "secret123", "Test", 0, ""), In("a@b.c", "", "Test", 0, ""),
          In("a@b.c", "secret123", "", 0, "")}
RegisterFails == {"none", "GetByEmail", "Hash", "EnsureRole", "BeginTx", "CreateUser",
                  "GenerateCode", "SaveVerificationCode", "SendVerification", "Commit"}
\* the users table holds at most MaxUsers rows
Room(email) == FreeIDs(users) # {} \/ HasEmail(users, email)

DoRegisterClient ==
  \E input \in RegisterInputs, newCode \in Codes, fail \in RegisterFails :
    /\ Room(input.email)
    /\ Returned("RegisterClient", input, fail,
                RegisterClient(users, codes, roles, deps, now, input, newCode, fail))

DoRegisterStandardUser ==
  \E input \in RegisterInputs, newCode \in Codes, fail \in RegisterFails :
    /\ Room(input.email)
    /\ Returned("RegisterStandardUser", input, fail,
                RegisterStandardUser(users, codes, roles, deps, now, input, newCode, fail))

VerifyInputs == {In("", "", "", u, c) : u \in UserIDs, c \in Codes \cup {""}}
VerifyFails == {"none", "GetVerificationCode", "DeleteVerificationCode", "GenerateCode",
                "SaveVerificationCode", "GetByID", "SetVerification"}

DoVerifyUser ==
  \E input \in VerifyInputs, newCode \in Codes, fail \in VerifyFails :
    Returned("VerifyUser", input, fail,
             VerifyUser(users, codes, roles, deps, now, input, newCode, fail))

LoginInputs == {In(e, p, "", 0, "") : e \in LoginEmails, p \in Passwords}
LoginFails == {"none", "GetByEmail", "Generate"}

DoLogin ==
  \E input \in LoginInputs, fail \in LoginFails :
    Returned("Login", input, fail, Login(users, codes, roles, deps, input, fail))

DoBlockUser ==
  \E u \in UserIDs, fail \in {"none", "UpdateStatus"} :
    Returned("BlockUser", In("", "", "", u, ""), fail,
             BlockUser(users, codes, roles, deps, In("", "", "", u, ""), fail))

SeedInputs == {In(e, p, "Admin", 0, "") : e \in {"", "a@b.c"}, p \in {"", "secret123"}}
DoSeedAdmin ==
  \E seed \in SeedInputs, fail \in {"none", "GetByEmail", "Hash", "EnsureRole", "CreateUser"} :
    /\ Room(seed.email)
    /\ Returned("SeedAdmin", seed, fail, SeedAdmin(users, codes, roles, deps, seed, fail))

UpdateInputs == {UpIn(u, a, n, "") : u \in UserIDs, a \in UserIDs, n \in {"", "New"}}
DoUpdateUser ==
  \E input \in UpdateInputs, fail \in {"none", "GetByID", "UpdateUserProfile"} :
    Returned("UpdateUser", input, fail,
             UpdateUser(users, codes, roles, deps, input, fail))

\* the handler passes any non-empty role name of the request body
RoleNames == {RoleAdmin, RoleUser, "superuser"}
RoleInputs == {UpIn(u, a, "", r) : u \in UserIDs, a \in UserIDs, r \in RoleNames}
DoUpdateUserRole ==
  \E input \in RoleInputs, fail \in {"none", "EnsureRole", "AssignRole", "GetByID"} :
    Returned("UpdateUserRole", input, fail,
             UpdateUserRole(users, codes, roles, deps, input, fail))

\* time passes between calls
TickSteps == {CodeTTL, CodeTTL + 1}
Tick ==
  \E d \in TickSteps :
    /\ now + d <= MaxTime
    /\ now' = now + d
    /\ UNCHANGED <<deps, users, roles, codes, last>>
    /\ UNCHANGED <<validator, limiter, clock, issued, http>>
    /\ UNCHANGED <<procs, rows, hub, conns>>

Next ==
  \/ DoRegisterClient
  \/ DoRegisterStandardUser
  \/ DoVerifyUser
  \/ DoLogin
  \/ DoBlockUser
  \/ DoSeedAdmin
  \/ Tick

Spec == Init /\ [][Next]_vars

\* ------------------------------------------- the lifecycle of an account
\* Every operation of the service, UpdateUser and UpdateUserRole included,
\* with all collaborators configured and one set of credentials.
AccountInit == Init /\ deps = AllDeps

Credentials == In("a@b.c", "secret123", "Test", 0, "")
SentCode == "123456"

AccountRegisterClient ==
  \E fail \in {"none", "SendVerification"} :
    /\ Room(Credentials.email)
    /\ Returned("RegisterClient", Credentials, fail,
                RegisterClient(users, codes, roles, deps, now, Credentials, SentCode, fail))

AccountRegisterStandardUser ==
  \E fail \in {"none", "SendVerification"} :
    /\ Room(Credentials.email)
    /\ Returned("RegisterStandardUser", Credentials, fail,
                RegisterStandardUser(users, codes, roles, deps, now, Credentials, SentCode, fail))

AccountVerifyUser ==
  \E input \in VerifyInputs, fail \in {"none", "DeleteVerificationCode"} :
    Returned("VerifyUser", input, fail,
             VerifyUser(users, codes, roles, deps, now, input, SentCode, fail))

AccountLogin ==
  Returned("Login", In(Credentials.email, Credentials.password, "", 0, ""), "none",
           Login(users, codes, roles, deps,
                 In(Credentials.email, Credentials.password, "", 0, ""), "none"))

AccountSeedAdmin ==
  \E fail \in {"none", "CreateUser"} :
    /\ Room(Credentials.email)
    /\ Returned("SeedAdmin", In(Credentials.email, Credentials.password, "Admin", 0, ""), fail,
                SeedAdmin(users, codes, roles, deps,
                          In(Credentials.email, Credentials.password, "Admin", 0, ""), fail))

AccountNext ==
  \/ AccountRegisterClient
  \/ AccountRegisterStandardUser
  \/ AccountVerifyUser
  \/ AccountLogin
  \/ DoBlockUser
  \/ AccountSeedAdmin
  \/ DoUpdateUser
  \/ DoUpdateUserRole
  \/ Tick

AccountSpec == AccountInit /\ [][AccountNext]_vars

\* ----------------------------------------------------- the HTTP server
\* main: the service with every collaborator, the admin seeded from the
\* configuration, then the router, with or without a token validator.
AdminSeed == In(Credentials.email, Credentials.password, "Admin", 0, "")
Seeded == SeedAdmin(<<>>, <<>>, {}, AllDeps, AdminSeed, "none")
HttpInit ==
  /\ Detached
  /\ deps = AllDeps
  /\ users = Seeded.users
  /\ roles = Seeded.roles
  /\ codes = Seeded.codes
  /\ now = 0
  /\ last = [op |-> "SeedAdmin", input |-> AdminSeed, fail |-> "none", err |-> Seeded.err,
             user |-> Seeded.user, token |-> Seeded.token, calls |-> Seeded.calls]
  /\ validator \in BOOLEAN
  /\ limiter = NewIPRateLimiter(0)
  /\ clock = 0
  /\ issued = {}
  /\ http = NoRequest

\* one request through the identity group: the rate limiter, the
\* middlewares of the route, the handler and the service call it makes
ServeHTTP(req) ==
  LET key == limiterKey(req.ip)
      lim == Allow(limiter, clock, key)
      c1 == << Hop("Allow", 0, 0, key) >>
      o == IF lim.ok THEN Chain(users, codes, roles, deps, validator, req, c1)
           ELSE NoService(StatusTooManyRequests, c1, users, codes, roles)
  IN /\ limiter' = lim.limiter
     /\ http' = [req |-> req, status |-> o.status, calls |-> o.calls]
     /\ issued' = IF o.op = "Login" /\ o.r.err = Nil THEN issued \cup {o.r.token}
                  ELSE issued
     /\ IF o.op = "none" THEN UNCHANGED <<deps, users, roles, codes, now, last>>
        ELSE Stored(o.op, o.input, "none", o.r)
     /\ UNCHANGED <<validator, clock, procs, rows, hub, conns>>

\* the Authorization headers a client can send
Auths == {NoAuth, Forged} \cup {Bearer(t) : t \in issued}

LoginRequests(ips) ==
  {Request("login", ip, NoAuth, 0, Credentials.email, p, "", "") :
     ip \in ips, p \in {Credentials.password, "pw"}}
UpdateUserRequests(ips) ==
  {Request("updateUser", ip, auth, 0, "", "", "New", "") : ip \in ips, auth \in Auths}
BlockUserRequests(ips) ==
  {Request("blockUser", ip, auth, id, "", "", "", "") :
     ip \in ips, auth \in Auths, id \in UserIDs}
UpdateUserRoleRequests(ips) ==
  {Request("updateUserRole", ip, auth, id, "", "", "", role) :
     ip \in ips, auth \in Auths, id \in DOMAIN Seeded.users, role \in {"", RoleUser}}

ServeLogin(ips) == \E req \in LoginRequests(ips) : ServeHTTP(req)
ServeUpdateUser(ips) == \E req \in UpdateUserRequests(ips) : ServeHTTP(req)
ServeBlockUser(ips) == \E req \in BlockUserRequests(ips) : ServeHTTP(req)
ServeUpdateUserRole(ips) == \E req \in UpdateUserRoleRequests(ips) : ServeHTTP(req)

\* time passes between requests: one refill interval, or long enough for
\* the cleanup to drop every entry
MaxClock == 24
PassSteps == {RefillInterval, LimiterTTL + CleanupInterval}
PassTime ==
  \E d \in PassSteps :
    /\ clock < MaxClock
    /\ clock' = clock + d
    /\ UNCHANGED <<deps, users, roles, codes, now, last, validator, limiter, issued, http>>
    /\ UNCHANGED <<procs, rows, hub, conns>>

OneIP == {"192.0.2.1"}

RouterNext ==
  \/ ServeLogin(OneIP)
  \/ ServeUpdateUser(OneIP)
  \/ ServeBlockUser(OneIP)
  \/ ServeUpdateUserRole(OneIP)
  \/ PassTime
RouterSpec == HttpInit /\ [][RouterNext]_vars

LimiterNext ==
  \/ ServeLogin(IPs)
  \/ PassTime
LimiterSpec == HttpInit /\ [][LimiterNext]_vars

\* ---------------------------------------------- concurrent registrations
\* Calls of RegisterClient, RegisterStandardUser and SeedAdmin for one
\* e-mail that run at the same time, one collaborator call per step.  users
\* and codes are the committed tables; the row a call has inserted in its
\* open transaction is its staged row.
MaxProcs == 2
Procs == 1..MaxProcs
RaceOps == {"RegisterClient", "RegisterStandardUser", "SeedAdmin"}

\* one call: its position, its uncommitted row, and what it has returned
Proc(op, pc, staged, err, user, created) ==
  [op |-> op, pc |-> pc, staged |-> staged, err |-> err, user |-> user,
   created |-> created]
IdleProc == Proc("", "idle", ZeroUser, Nil, ZeroUser, FALSE)
\* the return of a call; the deferred Rollback drops what is staged
Done(pr, err, user, created) == Proc(pr.op, "done", ZeroUser, err, user, created)
At(p, pc) == procs[p].pc = pc
Goto(p, pr) == procs' = [procs EXCEPT ![p] = pr]
RaceFrame ==
  UNCHANGED <<deps, now, last, validator, limiter, clock, issued, http, rows, hub, conns>>

\* the row a call hands to CreateUser
NewRow(op) ==
  [id |-> 0, email |-> Credentials.email, fullName |-> Credentials.fullName,
   passwordHash |-> Hash(Credentials.password),
   role |-> IF op = "SeedAdmin" THEN RoleAdmin
            ELSE IF op = "RegisterClient" THEN RoleClient ELSE RoleUser,
   status |-> IF op = "SeedAdmin" THEN UserStatusActive
              ELSE UserStatusPendingVerification,
   isVerified |-> op = "SeedAdmin"]

RaceInit ==
  /\ deps = AllDeps
  /\ users = <<>>
  /\ roles = {}
  /\ codes = <<>>
  /\ now = 0
  /\ last = NoCall
  /\ NoRouter
  /\ procs = [p \in Procs |-> IdleProc]
  /\ rows = <<>>
  /\ hub = <<>>
  /\ conns = <<>>

RaceCall(p) ==
  \E op \in RaceOps :
    /\ At(p, "idle")
    /\ Goto(p, Proc(op, "GetByEmail", ZeroUser, Nil, ZeroUser, FALSE))
    /\ UNCHANGED <<users, roles, codes>>
    /\ RaceFrame

\* the lookup: a found e-mail ends register with the conflict error and
\* seedAdmin with nil
RaceGetByEmail(p) ==
  LET pr == procs[p]
      look == GetByEmail(users, Credentials.email)
  IN /\ At(p, "GetByEmail")
     /\ Goto(p, IF look.err = Nil
                  THEN Done(pr, IF pr.op = "SeedAdmin" THEN Nil
                                ELSE ErrEmailAlreadyRegistered, ZeroUser, FALSE)
                  ELSE [pr EXCEPT !.pc = "EnsureRole"])
     /\ UNCHANGED <<users, roles, codes>>
     /\ RaceFrame

RaceEnsureRole(p) ==
  LET pr == procs[p]
  IN /\ At(p, "EnsureRole")
     /\ roles' = EnsureRole(roles, NewRow(pr.op).role)
     /\ Goto(p, [pr EXCEPT !.pc = "CreateUser"])
     /\ UNCHANGED <<users, codes>>
     /\ RaceFrame

\* an INSERT waits while another open transaction holds a row with the same
\* e-mail, and then meets the unique constraint against the committed rows
Locked(p) == \E q \in Procs \ {p} : procs[q].staged.email = Credentials.email

RaceCreateUser(p) ==
  LET pr == procs[p]
      cr == CreateUser(users, NewRow(pr.op))
  IN /\ At(p, "CreateUser")
     /\ ~Locked(p)
     /\ IF pr.op = "SeedAdmin"
          THEN /\ users' = cr.users
               /\ Goto(p, Done(pr, cr.err, ZeroUser, cr.err = Nil))
          ELSE /\ users' = users
               /\ Goto(p, IF cr.err # Nil THEN Done(pr, cr.err, ZeroUser, FALSE)
                          ELSE [pr EXCEPT !.staged = cr.user, !.pc = "SendVerification"])
     /\ UNCHANGED <<roles, codes>>
     /\ RaceFrame

\* Generate and tx.SaveVerificationCode stage the challenge, then the code
\* is sent; a failure returns before the commit
RaceSendVerification(p) ==
  LET pr == procs[p]
  IN /\ At(p, "SendVerification")
     /\ \E ok \in BOOLEAN :
          Goto(p, IF ok THEN [pr EXCEPT !.pc = "Commit"]
                  ELSE Done(pr, ErrSend, ZeroUser, FALSE))
     /\ UNCHANGED <<users, roles, codes>>
     /\ RaceFrame

\* tx.Commit makes the staged user and challenge durable
RaceCommit(p) ==
  LET pr == procs[p]
      cr == TxCreateUser(BeginTx(users, codes), [pr.staged EXCEPT !.id = 0])
      tx2 == TxSaveVerificationCode(cr.tx, cr.user.id, SentCode, now + CodeTTL)
      done == Commit(tx2)
  IN /\ At(p, "Commit")
     /\ \E ok \in BOOLEAN :
          IF ok THEN /\ users' = done.users
                     /\ codes' = done.codes
                     /\ Goto(p, Done(pr, Nil, cr.user, TRUE))
          ELSE /\ UNCHANGED <<users, codes>>
               /\ Goto(p, Done(pr, ErrStore, ZeroUser, FALSE))
     /\ UNCHANGED roles
     /\ RaceFrame

RaceNext ==
  \E p \in Procs :
    \/ RaceCall(p)
    \/ RaceGetByEmail(p)
    \/ RaceEnsureRole(p)
    \/ RaceCreateUser(p)
    \/ RaceSendVerification(p)
    \/ RaceCommit(p)

RaceSpec == RaceInit /\ [][RaceNext]_vars

\* ---------------------------------------------- concurrent verifications
\* VerifyUser calls for one registered user that run at the same time, one
\* store call per step.  Here the verification_codes table is kept row by
\* row in rows: one row per user id, replaced by a save for the same user.
Row(id, code, expiresAt) == [userID |-> id, code |-> code, expiresAt |-> expiresAt]
RowsOf(rs, id) == {i \in DOMAIN rs : rs[i].userID = id}
GetCodeRow(rs, id) ==
  IF RowsOf(rs, id) = {}
    THEN [err |-> ErrInvalidVerificationCode, code |-> "", expiresAt |-> 0]
    ELSE LET i == CHOOSE i \in RowsOf(rs, id) : \A j \in RowsOf(rs, id) : i <= j
         IN [err |-> Nil, code |-> rs[i].code, expiresAt |-> rs[i].expiresAt]
KeepOthers(rs, id) ==
  LET F[i \in 0..Len(rs)] ==
        IF i = 0 THEN <<>>
        ELSE IF rs[i].userID = id THEN F[i - 1] ELSE Append(F[i - 1], rs[i])
  IN F[Len(rs)]
DeleteCodeRows(rs, id) == KeepOthers(rs, id)
SaveCodeRow_insert(rs, id, code, expiresAt) == Append(rs, Row(id, code, expiresAt))
SaveCodeRow(rs, id, code, expiresAt) ==
  Append(KeepOthers(rs, id), Row(id, code, expiresAt))

\* one VerifyUser call: its position, the submitted code, the challenge it
\* has read, and what it has returned
VProc(pc, code, got, err) ==
  [op |-> "VerifyUser", pc |-> pc, code |-> code, got |-> got, err |-> err]
NoRow == [err |-> Nil, code |-> "", expiresAt |-> 0]
VDone(pr, err) == [pr EXCEPT !.pc = "done", !.err = err]

\* the user of the race: registered by RegisterClient at time 0
Registered == RegisterClient(<<>>, <<>>, {}, AllDeps, 0, Credentials, SentCode, "none")
Racer == Registered.user.id

VerifyRaceInit ==
  /\ deps = AllDeps
  /\ users = Registered.users
  /\ roles = Registered.roles
  /\ codes = <<>>
  /\ rows = [i \in DOMAIN Registered.codes |->
               Row(i, Registered.codes[i].code, Registered.codes[i].expiresAt)]
  /\ now = 0
  /\ last = NoCall
  /\ NoRouter
  /\ procs = [p \in Procs |-> VProc("idle", "", NoRow, Nil)]
  /\ hub = <<>>
  /\ conns = <<>>

VerifyFrame ==
  UNCHANGED <<deps, roles, codes, last, validator, limiter, clock, issued, http, hub, conns>>

VerifyCall(p) ==
  \E code \in Codes :
    /\ At(p, "idle")
    /\ Goto(p, VProc("GetVerificationCode", code, NoRow, Nil))
    /\ UNCHANGED <<users, rows, now>>
    /\ VerifyFrame

\* GetVerificationCode, then the tests of expiry and of the code
VerifyGet(p) ==
  LET pr == procs[p]
      got == GetCodeRow(rows, Racer)
      read == [pr EXCEPT !.got = got]
  IN /\ At(p, "GetVerificationCode")
     /\ Goto(p, IF got.err # Nil THEN VDone(read, got.err)
                ELSE IF expired(now, got.expiresAt)
                  THEN [read EXCEPT !.pc = "DeleteExpired"]
                ELSE IF wrongCode(got.code, pr.code) # Nil
                  THEN VDone(read, wrongCode(got.code, pr.code))
                ELSE [read EXCEPT !.pc = "SetVerification"])
     /\ UNCHANGED <<users, rows, now>>
     /\ VerifyFrame

VerifySet(p) ==
  LET pr == procs[p]
      sv == SetVerification(users, Racer, TRUE)
  IN /\ At(p, "SetVerification")
     /\ users' = sv.users
     /\ Goto(p, IF sv.err # Nil THEN VDone(pr, sv.err)
                ELSE [pr EXCEPT !.pc = "DeleteVerificationCode"])
     /\ UNCHANGED <<rows, now>>
     /\ VerifyFrame

\* return s.deps.UserRepo.DeleteVerificationCode(ctx, input.UserID)
VerifyDelete(p) ==
  /\ At(p, "DeleteVerificationCode")
  /\ rows' = DeleteCodeRows(rows, Racer)
  /\ Goto(p, VDone(procs[p], Nil))
  /\ UNCHANGED <<users, now>>
  /\ VerifyFrame

\* the expired branch: delete, then generate, save and send a new code
VerifyDeleteExpired(p) ==
  /\ At(p, "DeleteExpired")
  /\ rows' = DeleteCodeRows(rows, Racer)
  /\ Goto(p, [procs[p] EXCEPT !.pc = "SaveVerificationCode"])
  /\ UNCHANGED <<users, now>>
  /\ VerifyFrame

VerifySave(p) ==
  \E newCode \in Codes :
    /\ At(p, "SaveVerificationCode")
    /\ rows' = SaveCodeRow(rows, Racer, newCode, now + CodeTTL)
    /\ Goto(p, VDone(procs[p], ErrInvalidVerificationCode))
    /\ UNCHANGED <<users, now>>
    /\ VerifyFrame

VerifyTick ==
  /\ now + CodeTTL + 1 <= MaxTime
  /\ now' = now + CodeTTL + 1
  /\ UNCHANGED <<users, rows, procs>>
  /\ VerifyFrame

VerifyRaceNext ==
  \/ \E p \in Procs :
       \/ VerifyCall(p)
       \/ VerifyGet(p)
       \/ VerifySet(p)
       \/ VerifyDelete(p)
       \/ VerifyDeleteExpired(p)
       \/ VerifySave(p)
  \/ VerifyTick

VerifyRaceSpec == VerifyRaceInit /\ [][VerifyRaceNext]_vars

\* ------------------------------------------------------ the WebSocket hub
\* The hub goroutine owns hub.clients: no other goroutine reads the map, so
\* one body of Hub.Run's select, and one iteration of a range loop over the
\* map, is one step.  A channel of capacity n is its length; the unbuffered
\* register and unregister channels are a rendezvous with a hub that waits
\* in its select.
MaxClients == 2
SendCap == 1
BroadcastCap == 2
Clients == 1..MaxClients

Conn(pc, send, buf, closes, reader, writer) ==
  [pc |-> pc, send |-> send, buf |-> buf, closes |-> closes, reader |-> reader, writer |-> writer]

NoConn == Conn("none", "none", 0, 0, "none", "none")

newClient == Conn("new", "open", 0, 0, "none", "none")

NewHub ==
  [pc |-> "loop", clients |-> {}, cur |-> 0, todo |-> {}, broadcast |-> 0,
   cancelled |-> FALSE, sentOnClosed |-> FALSE]

\* close(client.send); closing a closed channel panics, counted as a second close
closeSend(cs, c) ==
  [cs EXCEPT ![c].send = "closed", ![c].closes = IF @ < 2 THEN @ + 1 ELSE @]

\* select { case h.broadcast <- payload: default: }
Publish(h) ==
  IF h.broadcast < BroadcastCap THEN [h EXCEPT !.broadcast = @ + 1] ELSE h

HubState(h, cs) == [hub |-> h, conns |-> cs]

unregister_unguarded(h, cs, c) ==
  HubState(Publish([h EXCEPT !.clients = @ \ {c}]), closeSend(cs, c))

\* case client := <-h.unregister
unregister(h, cs, c) ==
  IF c \in h.clients
  THEN HubState(Publish([h EXCEPT !.clients = @ \ {c}]), closeSend(cs, c))
  ELSE HubState(h, cs)

\* one iteration of the broadcast loop: select { case client.send <- message: default: drop }
sendTo(h, cs, c) ==
  IF cs[c].send = "closed" THEN HubState([h EXCEPT !.sentOnClosed = TRUE], cs)
  ELSE IF cs[c].buf < SendCap THEN HubState(h, [cs EXCEPT ![c].buf = @ + 1])
  ELSE HubState([h EXCEPT !.clients = @ \ {c}], closeSend(cs, c))

\* one iteration of shutdownClients
shutdownClient(h, cs, c) ==
  HubState([h EXCEPT !.clients = @ \ {c}], closeSend(cs, c))

HubInit ==
  /\ deps = AllDeps
  /\ users = <<>>
  /\ roles = {}
  /\ codes = <<>>
  /\ now = 0
  /\ last = NoCall
  /\ NoRouter
  /\ procs = <<>>
  /\ rows = <<>>
  /\ hub = NewHub
  /\ conns = [c \in Clients |-> NoConn]

HubFrame ==
  UNCHANGED <<deps, users, roles, codes, now, last, validator, limiter, clock, issued, http,
              procs, rows>>

HubGoto(s) ==
  /\ hub' = s.hub
  /\ conns' = s.conns
  /\ HubFrame

\* ServeHTTP: the upgrade succeeded and newClient built the client
Upgrade(c) ==
  /\ conns[c].pc = "none"
  /\ HubGoto(HubState(hub, [conns EXCEPT ![c] = newClient]))

\* ServeHTTP: case h.register <- client, the hub waits in its select
Accepted(c) ==
  /\ conns[c].pc = "new"
  /\ hub.pc = "select"
  /\ HubGoto(HubState([hub EXCEPT !.pc = "register", !.cur = c],
                      [conns EXCEPT ![c].pc = "accepted"]))

\* ServeHTTP: default, the hub does not receive: conn.Close() and return
Rejected(c) ==
  /\ conns[c].pc = "new"
  /\ hub.pc # "select"
  /\ HubGoto(HubState(hub, [conns EXCEPT ![c].pc = "rejected"]))

\* ServeHTTP: go writePump(), go readPump(), Publish(EventConnected)
Pumps(c) ==
  /\ conns[c].pc = "accepted"
  /\ HubGoto(HubState(Publish(hub),
                      [conns EXCEPT ![c].pc = "served", ![c].reader = "running",
                                    ![c].writer = "running"]))

\* readPump returns on a read error; its deferred select offers the client on
\* h.unregister, taken only by a hub that waits in its select
readPump(c) ==
  /\ conns[c].reader = "running"
  /\ HubGoto(HubState(IF hub.pc = "select" THEN [hub EXCEPT !.pc = "unregister", !.cur = c]
                      ELSE hub,
                      [conns EXCEPT ![c].reader = "exited"]))

\* writePump: case message, ok := <-c.send with a message in the buffer
writePump(c) ==
  /\ conns[c].writer = "running"
  /\ conns[c].buf > 0
  /\ HubGoto(HubState(hub, [conns EXCEPT ![c].buf = @ - 1]))

\* writePump returns: the channel is closed and drained, or a write failed
writePumpExit(c) ==
  /\ conns[c].writer = "running"
  /\ HubGoto(HubState(hub, [conns EXCEPT ![c].writer = "exited"]))

\* a handler of the API publishes an event
PublishEvent ==
  /\ hub.broadcast < BroadcastCap
  /\ HubGoto(HubState(Publish(hub), conns))

\* the context of Run is cancelled
Cancel ==
  /\ ~hub.cancelled
  /\ HubGoto(HubState([hub EXCEPT !.cancelled = TRUE], conns))

\* Run: for { select { ... } }, no case is ready
HubSelect ==
  /\ hub.pc = "loop"
  /\ HubGoto(HubState([hub EXCEPT !.pc = "select"], conns))

\* Run: h.clients[client] = true
HubRegister ==
  /\ hub.pc = "register"
  /\ HubGoto(HubState([hub EXCEPT !.pc = "loop", !.clients = @ \cup {hub.cur}, !.cur = 0], conns))

HubUnregister ==
  /\ hub.pc = "unregister"
  /\ LET s == unregister(hub, conns, hub.cur)
     IN HubGoto(HubState([s.hub EXCEPT !.pc = "loop", !.cur = 0], s.conns))

\* Run: case message := <-h.broadcast
HubBroadcast ==
  /\ hub.pc = "select"
  /\ hub.broadcast > 0
  /\ HubGoto(HubState([hub EXCEPT !.pc = "broadcast", !.broadcast = @ - 1, !.todo = hub.clients],
                      conns))

\* Run: for client := range h.clients, in any order
HubSend ==
  /\ hub.pc = "broadcast"
  /\ \/ /\ hub.todo = {}
        /\ HubGoto(HubState([hub EXCEPT !.pc = "loop"], conns))
     \/ \E c \in hub.todo :
          LET s == sendTo(hub, conns, c)
          IN HubGoto(HubState([s.hub EXCEPT !.todo = @ \ {c}], s.conns))

\* Run: case <-ctx.Done()
HubDone ==
  /\ hub.pc = "select"
  /\ hub.cancelled
  /\ HubGoto(HubState([hub EXCEPT !.pc = "shutdown", !.todo = hub.clients], conns))

\* shutdownClients, then Run returns
HubShutdown ==
  /\ hub.pc = "shutdown"
  /\ \/ /\ hub.todo = {}
        /\ HubGoto(HubState([hub EXCEPT !.pc = "stopped"], conns))
     \/ \E c \in hub.todo :
          LET s == shutdownClient(hub, conns, c)
          IN HubGoto(HubState([s.hub EXCEPT !.todo = @ \ {c}], s.conns))

HubNext ==
  \/ \E c \in Clients :
       \/ Upgrade(c)
       \/ Accepted(c)
       \/ Rejected(c)
       \/ Pumps(c)
       \/ readPump(c)
       \/ writePump(c)
       \/ writePumpExit(c)
  \/ PublishEvent
  \/ Cancel
  \/ HubSelect
  \/ HubRegister
  \/ HubUnregister
  \/ HubBroadcast
  \/ HubSend
  \/ HubDone
  \/ HubShutdown

HubSpec == HubInit /\ [][HubNext]_vars

\* =================================================================
\* Properties of Login.  Login leaves the stores alone, so in a state whose
\* last call is a Login the users table is the one the call has read.
LoginDone == last.op = "Login" /\ deps = AllDeps
LoginUser == GetByEmail(users, last.input.email).user
LoginFound == HasEmail(users, last.input.email)
LoginMatch == LoginFound /\ Compare(LoginUser.passwordHash, last.input.password) = Nil
Compares == {i \in DOMAIN last.calls : last.calls[i].call = "Compare"}
StatusChecks == {i \in DOMAIN last.calls : last.calls[i].call = "CheckStatus"}

\* the four failure cases of Login
LoginMissing == ~LoginFound
LoginWrongPassword == LoginFound /\ ~LoginMatch
LoginBlocked == LoginMatch /\ LoginUser.status = UserStatusBlocked
LoginUnverified == LoginMatch /\ ~LoginUser.isVerified

C1_WitnessMissing ==
  /\ LoginDone /\ LoginMissing /\ last.fail = "none" /\ last.err = ErrInvalidCredentials
  /\ \E i \in Compares : last.calls[i].s1 = dummyPasswordHash

\* C2 as claimed: Login returns a token only for a user whose stored hash
\* matched and whose status is active and who is verified, and the token is
\* the one the token provider generates for the user's id and role.
C2_TokenOnlyIfActive ==
  (LoginDone /\ last.err = Nil)
  => /\ LoginMatch
     /\ LoginUser.status = UserStatusActive
     /\ LoginUser.isVerified
     /\ last.token = Generate(LoginUser)

\* C2 amended: Login returns a token only for a user whose stored hash
\* matched, whose status is not blocked and who is verified; the token is
\* the one the token provider generates for the user's id and role.
C2_TokenOnlyIfNotBlockedAndVerified ==
  /\ (LoginDone /\ last.err = Nil)
     => /\ LoginMatch
        /\ \E i \in Compares : last.calls[i].s1 = LoginUser.passwordHash
        /\ LoginUser.status # UserStatusBlocked
        /\ LoginUser.isVerified
        /\ last.token = Generate(LoginUser)
        /\ last.token = [sub |-> LoginUser.id, role |-> LoginUser.role]
  /\ (LoginDone /\ last.err # Nil) => last.token = ZeroToken
C2_Witness ==
  /\ LoginDone /\ last.err = Nil /\ LoginUser.isVerified
  /\ LoginUser.status = UserStatusPendingVerification
  /\ last.token = [sub |-> LoginUser.id, role |-> LoginUser.role]

Registers == {"RegisterClient", "RegisterStandardUser"}
RegisterDeps == {"UserRepo", "PasswordHasher", "RoleRepo"}
VerifyStep == now' = now /\ last'.op = "VerifyUser" /\ "UserRepo" \in deps
RegisterStep == now' = now /\ last'.op \in Registers /\ RegisterDeps \subseteq deps
Called(l, call) == {i \in DOMAIN l.calls : l.calls[i].call = call}
RowsWithEmail(us, email) == {id \in DOMAIN us : us[id].email = email}

C4_Step ==
  (VerifyStep /\ last'.fail = "none") =>
    LET u == last'.input.userID
        c == last'.input.code
    IN /\ (u \in DOMAIN codes /\ u \in DOMAIN users /\ codes[u].code = c
             /\ now <= codes[u].expiresAt)
          => (last'.err = Nil /\ users'[u].isVerified /\ u \notin DOMAIN codes')
       /\ u \notin DOMAIN codes
          => (last'.err # Nil /\ users' = users /\ codes' = codes)
       /\ last'.err = Nil => u \notin DOMAIN codes'
\* C4: VerifyUser with the stored, unexpired code succeeds, makes the user
\* verified and deletes the challenge; a VerifyUser that finds no challenge
\* (as the second call with the same code does) fails and changes nothing.
C4_VerifyConsumesChallenge == [][C4_Step]_vars
C4_Witness ==
  /\ last.op = "VerifyUser" /\ last.err = Nil /\ last.input.code \in Codes
  /\ last.input.userID \in DOMAIN users /\ users[last.input.userID].isVerified
  /\ last.input.userID \notin DOMAIN codes

C5_Step ==
  LET u == last'.input.userID
      c == last'.input.code
  IN /\ (VerifyStep /\ deps = AllDeps /\ last'.fail = "none" /\ u \in DOMAIN codes
           /\ u \in DOMAIN users /\ codes[u].code = c /\ now > codes[u].expiresAt)
        => /\ last'.err = ErrInvalidVerificationCode
           /\ Called(last', "DeleteVerificationCode") # {}
           /\ u \in DOMAIN codes' /\ codes'[u].code # c
           /\ \E i \in Called(last', "SendVerification") :
                last'.calls[i].s1 = users[u].email /\ last'.calls[i].s2 = codes'[u].code
     /\ (VerifyStep /\ last.op = "VerifyUser" /\ last.input = last'.input
           /\ Called(last, "SendVerification") # {} /\ last'.fail = "none")
        => last'.err # Nil
\* C5 as claimed: VerifyUser on an expired challenge with code C returns the
\* invalid-code error, deletes the challenge, stores a new code distinct
\* from C, sends that code to the user's e-mail, and the next VerifyUser
\* with C fails again.
C5_ExpiredRegeneratesDistinct == [][C5_Step]_vars

C6_Step ==
  (VerifyStep /\ last'.fail # "GetVerificationCode") =>
    LET u == last'.input.userID
        absent == u \notin DOMAIN codes
        isExpired == ~absent /\ now > codes[u].expiresAt
        differs == ~absent /\ ~isExpired /\ codes[u].code # last'.input.code
    IN (absent \/ isExpired \/ differs) => last'.err = ErrInvalidVerificationCode
\* C6: VerifyUser returns the one invalid-verification-code error when the
\* submitted code differs from the stored one, when the stored challenge is
\* expired and when the user has no challenge (as after a success).
C6_UniformRejection == [][C6_Step]_vars
C6_Witness ==
  /\ last.op = "VerifyUser" /\ last.err = ErrInvalidVerificationCode
  /\ last.fail = "none" /\ last.input.code \in Codes
  /\ last.input.userID \in DOMAIN users /\ users[last.input.userID].isVerified
  /\ last.input.userID \notin DOMAIN codes

C7_Step ==
  /\ (RegisterStep /\ ~missingField(last'.input) /\ HasEmail(users, last'.input.email))
     => /\ last'.err = ErrEmailAlreadyRegistered
        /\ last'.err # ErrInvalidCredentials
        /\ users' = users
        /\ Cardinality(RowsWithEmail(users', last'.input.email)) = 1
  /\ \A e \in Emails : Cardinality(RowsWithEmail(users', e)) <= 1
\* C7: a registration with an e-mail that is already stored fails with the
\* e-mail-already-registered error, which is not the generic credentials
\* error, and exactly one row with that e-mail exists afterwards.
C7_DuplicateEmailConflict == [][C7_Step]_vars
C7_Witness ==
  /\ last.op \in Registers /\ last.err = ErrEmailAlreadyRegistered
  /\ Cardinality(RowsWithEmail(users, last.input.email)) = 1

\* C8 as claimed: a registration whose password is shorter than the minimum
\* length returns a validation error and creates no user.
C8_ShortPasswordRejected ==
  [][(RegisterStep /\ Len(last'.input.password) < MinPasswordLen)
       => (last'.err = ErrInvalidCredentials /\ users' = users)]_vars

C8_Step ==
  /\ (RegisterStep /\ last'.input.password = "")
     => /\ last'.err = ErrInvalidCredentials
        /\ last'.calls = <<>>
        /\ users' = users /\ codes' = codes /\ roles' = roles
  /\ (RegisterStep /\ ~missingField(last'.input) /\ last'.fail = "none"
        /\ ~HasEmail(users, last'.input.email))
     => /\ last'.err = Nil
        /\ \E id \in DOMAIN users' \ DOMAIN users :
             /\ users'[id].email = last'.input.email
             /\ users'[id].passwordHash = Hash(last'.input.password)
\* C8 amended: a registration whose password is empty returns the
\* validation error before any collaborator call and creates no user; the
\* service applies no length or character-class policy, so every non-empty
\* password, also one shorter than the minimum length of the HTTP binding,
\* is accepted.
C8_EmptyPasswordRejected == [][C8_Step]_vars
C8_Witness ==
  /\ last.op \in Registers /\ last.input.password = ""
  /\ last.err = ErrInvalidCredentials /\ RegisterDeps \subseteq deps
C8_WitnessShort ==
  /\ last.op \in Registers /\ last.err = Nil
  /\ Len(last.input.password) < MinPasswordLen
  /\ HasEmail(users, last.input.email)

SendFailed == last.op \in Registers /\ last.fail = "SendVerification"
\* C9 as claimed: when the dispatch of the code fails during registration
\* the call returns an error while the user row and its challenge row stay
\* stored.
C9_SendFailureKeepsRows ==
  SendFailed =>
    /\ last.err # Nil
    /\ \E id \in RowsWithEmail(users, last.input.email) : id \in DOMAIN codes

C9_Step ==
  (RegisterStep /\ last'.fail = "SendVerification") =>
    /\ last'.err = ErrSend
    /\ users' = users /\ codes' = codes
    /\ Cardinality(Called(last', "SendVerification")) = 1
    /\ Called(last', "Commit") = {}
    /\ last'.calls[Len(last'.calls)].call = "Rollback"
\* C9 amended: when the dispatch of the code fails during registration the
\* call returns the sender's error and neither the user row nor the
\* challenge row of that call is stored: the single dispatch attempt is
\* made before the commit and its failure ends the call in the rollback.
C9_SendFailureRollsBack == [][C9_Step]_vars
C9_Witness ==
  /\ SendFailed /\ last.err = ErrSend /\ ~HasEmail(users, last.input.email)
  /\ Called(last, "SaveVerificationCode") # {}

\* C10 as claimed: when SendVerification fails during registration the call
\* returns an error and UserRepo.DeleteUser is called for the created user.
C10_SendFailureDeletesUser ==
  SendFailed =>
    /\ last.err # Nil
    /\ \E i \in Called(last, "DeleteUser") :
         \E j \in Called(last, "GenerateCode") : last.calls[i].id = last.calls[j].id

\* =================================================================
\* The end-to-end scenario: a state whose last call is X and a step that is
\* a call Y are the calls X, Y made one after the other.
LoginStep == now' = now /\ last'.op = "Login" /\ deps = AllDeps
SentCodes(l) == {l.calls[i].s2 : i \in Called(l, "SendVerification")}

C11_Step ==
  /\ (RegisterStep /\ last'.op = "RegisterClient" /\ last'.fail = "none"
        /\ ~missingField(last'.input) /\ ~HasEmail(users, last'.input.email))
     => /\ last'.err = Nil
        /\ last'.user.email = last'.input.email
        /\ last'.user.role = RoleClient
        /\ last'.user.status = UserStatusPendingVerification
        /\ ~last'.user.isVerified
        /\ last'.user.id \in DOMAIN users' /\ users'[last'.user.id] = last'.user
  /\ (last.op = "RegisterClient" /\ last.err = Nil /\ VerifyStep
        /\ last'.fail = "none" /\ last'.input.userID = last.user.id
        /\ last'.input.code \in SentCodes(last)
        /\ now <= codes[last.user.id].expiresAt)
     => /\ last'.err = Nil
        /\ users'[last.user.id] = [last.user EXCEPT !.isVerified = TRUE]
  /\ (last.op = "VerifyUser" /\ last.err = Nil /\ LoginStep /\ last'.fail = "none"
        /\ users[last.input.userID].status = UserStatusPendingVerification
        /\ last'.input.email = users[last.input.userID].email
        /\ Compare(users[last.input.userID].passwordHash, last'.input.password) = Nil)
     => /\ last'.err = Nil
        /\ last'.token # ZeroToken
        /\ last'.token.sub = last.input.userID
\* C11: RegisterClient with a fresh e-mail returns (and stores) a user that
\* is pending verification and not verified; the VerifyUser that follows
\* with the code handed to the sender succeeds and makes that user
\* verified; the Login that follows with the same e-mail and password
\* returns a non-empty token.
C11_RegisterVerifyLogin == [][C11_Step]_vars
C11_Witness ==
  /\ LoginDone /\ last.err = Nil /\ last.token # ZeroToken
  /\ last.token.role = RoleClient
  /\ LoginUser.status = UserStatusPendingVerification /\ LoginUser.isVerified

\* =================================================================
\* Properties of SeedAdmin.
SeedStep == now' = now /\ last'.op = "SeedAdmin" /\ RegisterDeps \subseteq deps
EmptySeed(seed) == seed.email = "" \/ seed.password = ""
SeededRow(seed, id) ==
  [id |-> id, email |-> seed.email, fullName |-> seed.fullName,
   passwordHash |-> Hash(seed.password), role |-> RoleAdmin,
   status |-> UserStatusActive, isVerified |-> TRUE]

C12_Step ==
  SeedStep =>
    LET seed == last'.input
    IN /\ EmptySeed(seed)
          => /\ last'.err = Nil /\ last'.calls = <<>>
             /\ users' = users /\ codes' = codes /\ roles' = roles
       /\ (~EmptySeed(seed) /\ last'.fail = "none" /\ HasEmail(users, seed.email))
          => /\ last'.err = Nil
             /\ users' = users /\ codes' = codes
             /\ Called(last', "CreateUser") = {}
       /\ (~EmptySeed(seed) /\ last'.fail = "none" /\ ~HasEmail(users, seed.email))
          => /\ last'.err = Nil
             /\ \E id \in DOMAIN users' \ DOMAIN users :
                  /\ users'[id] = SeededRow(seed, id)
                  /\ DOMAIN users' = DOMAIN users \cup {id}
             /\ \A id \in DOMAIN users : users'[id] = users[id]
       /\ (~EmptySeed(seed) /\ last'.err = Nil)
          => Cardinality(RowsWithEmail(users', seed.email)) = 1
       /\ users' # users => ~HasEmail(users, seed.email)
       /\ (last.op = "SeedAdmin" /\ last.input = seed /\ last.err = Nil
             /\ last'.fail = "none")
          => (last'.err = Nil /\ users' = users)
\* C12: SeedAdmin with an empty seed e-mail or password returns nil without
\* a store call; with a full seed and working collaborators it returns nil
\* and leaves exactly one user with the seed's e-mail: the active, verified
\* admin it creates when no user had that e-mail, the unchanged existing
\* user otherwise, so a repeated call changes nothing.
C12_SeedAdminIdempotent == [][C12_Step]_vars
C12_Witness ==
  /\ last.op = "SeedAdmin" /\ last.err = Nil /\ last.fail = "none"
  /\ Len(last.calls) = 1 /\ last.calls[1].call = "GetByEmail"
  /\ \E id \in RowsWithEmail(users, last.input.email) :
       users[id] = SeededRow(last.input, id)

\* =================================================================
\* Properties of the account lifecycle.  A step that leaves the clock alone
\* is a service call, also under AccountSpec.
UpdateUserStep == now' = now /\ last'.op = "UpdateUser"
SameButFullName(old, new) == new = [old EXCEPT !.fullName = new.fullName]

C13_Step ==
  UpdateUserStep =>
    LET u == last'.input.userID
        n == last'.input.fullName
    IN /\ DOMAIN users' = DOMAIN users /\ codes' = codes /\ roles' = roles
       /\ \A id \in DOMAIN users :
            /\ users'[id].role = users[id].role
            /\ users'[id].status = users[id].status
            /\ users'[id].isVerified = users[id].isVerified
            /\ users'[id].email = users[id].email
            /\ users'[id].passwordHash = users[id].passwordHash
            /\ SameButFullName(users[id], users'[id])
            /\ users'[id].fullName # users[id].fullName
               => (id = u /\ n # "" /\ users'[id].fullName = n)
       /\ n = "" => users' = users
       /\ (last'.fail = "none" /\ u \in DOMAIN users /\ "UserRepo" \in deps)
          => /\ last'.err = Nil
             /\ last'.user = users'[u]
             /\ users'[u].fullName = IF n # "" THEN n ELSE users[u].fullName
\* C13: UpdateUser writes nothing but the fullName of the addressed user,
\* and that only when the given fullName is not empty: role, status,
\* isVerified, e-mail and passwordHash of every user are the same after the
\* call as before it, for every input and every outcome.
C13_UpdateUserFrame == [][C13_Step]_vars
C13_Witness ==
  /\ last.op = "UpdateUser" /\ last.err = Nil /\ last.input.fullName = "New"
  /\ last.input.userID \in DOMAIN users
  /\ users[last.input.userID].fullName = "New"
  /\ users[last.input.userID].role = RoleClient
  /\ last.user = users[last.input.userID]

\* the users that hold the admin role after the step and did not before it
NewAdmins ==
  {id \in DOMAIN users' :
     /\ users'[id].role = RoleAdmin
     /\ id \in DOMAIN users => users[id].role # RoleAdmin}
IsAdmin(us, id) == id \in DOMAIN us /\ us[id].role = RoleAdmin
UpdateUserRoleStep == now' = now /\ last'.op = "UpdateUserRole"

C14_Step ==
  /\ \A id \in NewAdmins :
       \/ last'.op = "SeedAdmin" /\ id \notin DOMAIN users
       \/ /\ last'.op = "UpdateUserRole"
          /\ last'.input.userID = id /\ last'.input.role = RoleAdmin
  /\ (now' = now /\ last'.op \in Registers)
     => /\ NewAdmins = {}
        /\ last'.user.role # RoleAdmin
  /\ UpdateUserRoleStep
     => \A a \in UserIDs :
          LET r == UpdateUserRole(users, codes, roles, deps,
                                  [last'.input EXCEPT !.actorID = a], last'.fail)
          IN r.users = users' /\ r.roles = roles' /\ r.err = last'.err
StatusChanged == {id \in DOMAIN users \cap DOMAIN users' : users'[id].status # users[id].status}

C15_Step ==
  \A id \in StatusChanged :
    \/ /\ users[id].status = UserStatusPendingVerification
       /\ users'[id].status = UserStatusActive
       /\ last'.op = "VerifyUser" /\ last'.err = Nil /\ last'.input.userID = id
    \/ /\ users[id].status # UserStatusBlocked
       /\ users'[id].status = UserStatusBlocked
       /\ last'.op = "BlockUser" /\ last'.input.userID = id
\* C15: in every step of every operation a status that changes goes either
\* from pending_verification to active, in a successful VerifyUser of that
\* user, or from a status other than blocked to blocked, in a BlockUser of
\* that user; nothing else changes a status.
C15_StatusTransitions == [][C15_Step]_vars
C15_Witness ==
  /\ last.op = "BlockUser" /\ last.err = Nil
  /\ last.input.userID \in DOMAIN users
  /\ users[last.input.userID].status = UserStatusBlocked
  /\ users[last.input.userID].role = RoleUser

C16_Step ==
  \A id \in DOMAIN users :
    /\ id \in DOMAIN users'
    /\ users[id].isVerified => users'[id].isVerified
\* C16: no step of any operation (registration, VerifyUser, Login,
\* BlockUser, UpdateUser, UpdateUserRole, SeedAdmin) takes a user's
\* isVerified from true back to false.
C16_VerifiedMonotonic == [][C16_Step]_vars
C16_Witness ==
  /\ last.op = "UpdateUserRole" /\ last.err = Nil
  /\ last.input.userID \in DOMAIN users
  /\ users[last.input.userID].isVerified
  /\ users[last.input.userID].status = UserStatusPendingVerification
  /\ users[last.input.userID].role = last.input.role

RoleEnum == {RoleAdmin, RoleUser, RoleClient}
\* C17 as claimed: in every reachable state the role of every user is one
\* of admin, user, client, and the role store holds no other role, also
\* after UpdateUserRole with an arbitrary role name.
C17_RolesInEnum ==
  /\ \A id \in DOMAIN users : users[id].role \in RoleEnum
  /\ roles \subseteq RoleEnum

\* =================================================================
\* Properties of the HTTP layer.  http is the last request, its response
\* and the chain of calls made for it.
HttpCalled(h, call) == {i \in DOMAIN h.calls : h.calls[i].call = call}
AdminServiceCalls == HttpCalled(http, "UpdateUserRole") \cup HttpCalled(http, "BlockUser")
\* a Validate before call i that succeeded with the admin role
ValidatedAdminBefore(i) ==
  \E j \in 1..(i - 1) :
    /\ http.calls[j].call = "Validate"
    /\ http.calls[j].s = RoleAdmin
    /\ http.calls[j].a = http.req.auth.token.sub
AdminRequest == http.req.route \in AdminRoutes /\ http.status # StatusTooManyRequests
AdminRoutesGuarded ==
  /\ \A i \in AdminServiceCalls : ValidatedAdminBefore(i)
  /\ (AdminRequest /\ http.req.auth.kind = "none")
     => (http.status = StatusUnauthorized /\ AdminServiceCalls = {})
  /\ (AdminRequest /\ http.req.auth.kind = "bearer" /\ http.req.auth.token.role # RoleAdmin)
     => (http.status = StatusForbidden /\ AdminServiceCalls = {})

C18_WitnessForbidden ==
  /\ validator /\ http.req.route \in AdminRoutes /\ http.status = StatusForbidden
  /\ http.req.auth.kind = "bearer" /\ HttpCalled(http, "Validate") # {}
  /\ AdminServiceCalls = {}

\* C19 as claimed: the UpdateUser handler calls the service only for an
\* authenticated request, with the authenticated user's id both as UserID
\* and as UpdaterID; without an authenticated user id it answers 401 and
\* does not call the service.
C19_UpdateUserOwnProfile ==
  (http.req.route = "updateUser" /\ http.status # StatusTooManyRequests) =>
    /\ \A i \in HttpCalled(http, "UpdateUser") :
         /\ \E j \in 1..(i - 1) :
              /\ http.calls[j].call = "Validate"
              /\ http.calls[j].a = http.req.auth.token.sub
              /\ http.calls[j].a # 0
         /\ http.calls[i].a = http.req.auth.token.sub
         /\ http.calls[i].b = http.req.auth.token.sub
    /\ http.req.auth.kind # "bearer"
       => (http.status = StatusUnauthorized /\ HttpCalled(http, "UpdateUser") = {})

\* the requests a client may still make at time t before it is refused
Allowance(l, t, key) ==
  LET c == maybeCleanup(l, t)
  IN IF key \in DOMAIN c.clients THEN advance(c.clients[key], t) ELSE Burst

C20_Step ==
  /\ clock' = clock =>
       LET ip == http'.req.ip
           left == Allowance(limiter, clock, ip)
       IN /\ left \in 0..Burst
          /\ left > 0
             => /\ http'.status # StatusTooManyRequests
                /\ HttpCalled(http', "Login") # {}
                /\ Allowance(limiter', clock, ip) = left - 1
          /\ left = 0
             => /\ http'.status = StatusTooManyRequests
                /\ Len(http'.calls) = 1 /\ http'.calls[1].call = "Allow"
                /\ users' = users /\ last' = last /\ issued' = issued
                /\ Allowance(limiter', clock, ip) = 0
          /\ \A other \in IPs \ {ip} :
               Allowance(limiter', clock, other) = Allowance(limiter, clock, other)
  /\ \A ip \in IPs :
       /\ ip \notin DOMAIN limiter.clients => Allowance(limiter, clock, ip) = Burst
       /\ clock' # clock => Allowance(limiter', clock', ip) >= Allowance(limiter, clock, ip)
\* C20: every request to an identity route first takes one token of its
\* client IP's bucket, which starts with 5: while tokens are left the
\* request reaches the handler and the allowance of that IP drops by one;
\* with none left it is answered 429 and the handler is not invoked, so
\* without a refill the first 5 requests pass and the 6th is refused.  The
\* allowance of every other IP is left as it is; only time raises one.
C20_RateLimitedPerIP == [][C20_Step]_vars
C20_Witness ==
  /\ clock = 0 /\ http.status = StatusTooManyRequests /\ http.req.ip = "192.0.2.1"
  /\ HttpCalled(http, "Login") = {}
  /\ Allowance(limiter, clock, "192.0.2.1") = 0
  /\ "192.0.2.2" \in DOMAIN limiter.clients
  /\ Allowance(limiter, clock, "192.0.2.2") = Burst - 1

\* =================================================================
\* The transactional scope of a registration.
SendDeps == {"VerificationCodeProvider", "VerificationSender"}
TxFails == {"CreateUser", "GenerateCode", "SaveVerificationCode", "Commit"}
C21_Step ==
  (RegisterStep /\ SendDeps \subseteq deps) =>
    LET newUsers == DOMAIN users' \ DOMAIN users
        newCodes == DOMAIN codes' \ DOMAIN codes
    IN /\ newUsers = newCodes
       /\ Cardinality(newUsers) <= 1
       /\ \A id \in DOMAIN users : id \in DOMAIN users' /\ users'[id] = users[id]
       /\ \A id \in DOMAIN codes : id \in DOMAIN codes' /\ codes'[id] = codes[id]
       /\ last'.err = Nil <=> newUsers # {}
       /\ last'.err = Nil => newUsers = {last'.user.id}
       /\ last'.fail \in TxFails => (last'.err # Nil /\ newUsers = {} /\ newCodes = {})
\* C21: with code generator and sender configured a registration call
\* stores its user row and its challenge row together or not at all: after
\* the call has returned, with success or after a failure of CreateUser,
\* Generate, SaveVerificationCode or Commit, the rows this call added are
\* either both of them or none, and no other row has changed.
C21_RegisterAtomic == [][C21_Step]_vars
C21_Witness ==
  /\ last.op \in Registers /\ last.fail = "Commit" /\ last.err = ErrStore
  /\ Called(last, "SaveVerificationCode") # {} /\ Called(last, "Commit") # {}
  /\ users = <<>> /\ codes = <<>>
C21_WitnessBoth ==
  /\ last.op \in Registers /\ last.err = Nil /\ SendDeps \subseteq deps
  /\ last.user.id \in DOMAIN users /\ last.user.id \in DOMAIN codes

Sends(l) == Called(l, "SendVerification")
\* C22 as claimed: during one registration call SendVerification is invoked
\* at most twice; a second attempt is made exactly when the first attempt
\* failed, and there is never a third.
C22_SendRetriedOnce ==
  last.op \in Registers =>
    /\ Cardinality(Sends(last)) <= 2
    /\ Cardinality(Sends(last)) = 2 <=> last.fail = "SendVerification"

\* C22 amended: during one registration call SendVerification is invoked at
\* most once; when that attempt fails the call rolls back and returns the
\* sender's error without a second attempt.
C22_SendAttemptedOnce ==
  last.op \in Registers =>
    /\ Cardinality(Sends(last)) <= 1
    /\ last.fail = "SendVerification"
       => /\ Cardinality(Sends(last)) = 1
          /\ last.err = ErrSend
          /\ \A i \in Sends(last) :
               i + 1 = Len(last.calls) /\ last.calls[i + 1].call = "Rollback"
    /\ (last.err = Nil /\ SendDeps \subseteq deps) => Cardinality(Sends(last)) = 1
C22_Witness ==
  /\ SendFailed /\ last.err = ErrSend /\ Cardinality(Sends(last)) = 1
  /\ last.calls[Len(last.calls)].call = "Rollback"

\* =================================================================
\* The regeneration of an expired challenge.
ExpiredAt(cs, t, u) == u \in DOMAIN cs /\ t > cs[u].expiresAt
C25_Step ==
  LET u == last'.input.userID
  IN (VerifyStep /\ u \in DOMAIN users /\ ExpiredAt(codes, now, u)
        /\ last'.input.code # "")
     => /\ last'.err # Nil
        /\ users'[u].isVerified = users[u].isVerified
        /\ u \in DOMAIN codes'
        /\ ~ExpiredAt(codes', now, u)
        /\ codes'[u].code # codes[u].code
\* C25 as claimed: after a VerifyUser call made while the user's challenge
\* is expired, the expired challenge is gone and the user holds a fresh,
\* unexpired challenge with another code; the call does not verify the user
\* and never leaves the unverified user without a challenge.
C25_ExpiredSelfHeals == [][C25_Step]_vars

\* =================================================================
\* Errors found before any write.
EarlyErrors == {ErrInvalidCredentials, ErrEmailAlreadyRegistered}
RoleOf(op) == IF op = "RegisterClient" THEN RoleClient ELSE RoleUser
NoWriteCalls(l) ==
  /\ Called(l, "EnsureRole") = {} /\ Called(l, "CreateUser") = {}
  /\ Called(l, "SaveVerificationCode") = {} /\ Sends(l) = {}
\* C27 as claimed: a registration call that returns a validation error or
\* the e-mail-conflict error has invoked none of EnsureRole, CreateUser,
\* SaveVerificationCode and SendVerification and has left the stored users,
\* roles and challenges unchanged.
C27_EarlyErrorsWriteNothing ==
  [][(RegisterStep /\ last'.err \in EarlyErrors)
       => (NoWriteCalls(last') /\ users' = users /\ roles' = roles /\ codes' = codes)]_vars

C27_Step ==
  (RegisterStep /\ last'.err \in EarlyErrors) =>
    /\ users' = users /\ codes' = codes
    /\ Called(last', "SaveVerificationCode") = {} /\ Sends(last') = {}
    /\ last'.err = ErrInvalidCredentials => last'.calls = <<>>
    /\ Called(last', "CreateUser") = {}
       => (NoWriteCalls(last') /\ roles' = roles /\ Called(last', "Hash") = {})
    /\ Called(last', "CreateUser") # {}
       => /\ last'.err = ErrEmailAlreadyRegistered
          /\ HasEmail(users, last'.input.email)
          /\ Called(last', "EnsureRole") # {}
          /\ roles' = roles \cup {RoleOf(last'.op)}
\* C27 amended: a registration call that returns a validation error, or the
\* e-mail-conflict error found by the e-mail lookup, has made no write and
\* no collaborator call but the lookup.  The conflict error can also come
\* from CreateUser's unique e-mail constraint, when the lookup failed: that
\* call has invoked Hash, EnsureRole (the role row may be new) and
\* CreateUser, while users and challenges are unchanged and
\* SaveVerificationCode and SendVerification were not invoked.
C27_EarlyErrorsWriteNoUser == [][C27_Step]_vars
C27_Witness ==
  /\ last.op \in Registers /\ last.err = ErrEmailAlreadyRegistered
  /\ last.fail = "GetByEmail" /\ Called(last, "CreateUser") # {}
  /\ RoleOf(last.op) \in roles
C27_WitnessLookup ==
  /\ last.op \in Registers /\ last.err = ErrEmailAlreadyRegistered
  /\ Len(last.calls) = 1 /\ last.calls[1].call = "GetByEmail"

\* =================================================================
\* Blocked accounts.
Blocked(us) == {id \in DOMAIN us : us[id].status = UserStatusBlocked}
C28_Step ==
  /\ \A id \in Blocked(users) : id \in Blocked(users')
  /\ (LoginStep /\ last'.token # ZeroToken) => last'.token.sub \notin Blocked(users)
  /\ (LoginStep /\ \E id \in Blocked(users) : users[id].email = last'.input.email)
     => (last'.err # Nil /\ last'.token = ZeroToken)
\* C28: once a user is blocked no operation of the service changes the
\* user's status away from blocked, and no Login, also with the correct
\* password, returns a token for that user.
C28_BlockedAbsorbing == [][C28_Step]_vars
C28_Witness ==
  /\ last.op = "Login" /\ last.err = ErrInvalidCredentials
  /\ Called(last, "CheckStatus") # {}
  /\ \E id \in Blocked(users) :
       /\ users[id].email = last.input.email
       /\ users[id].isVerified
       /\ Compare(users[id].passwordHash, last.input.password) = Nil

\* C29 as claimed: a VerifyUser call that returns an error has not verified
\* the user (isVerified is as before the call), and on the wrong-code path
\* the stored challenge is unchanged as well.
C29_ErrorLeavesUnverified ==
  [][(VerifyStep /\ last'.err # Nil)
       => /\ \A id \in DOMAIN users :
               id \in DOMAIN users' /\ users'[id].isVerified = users[id].isVerified
          /\ LET u == last'.input.userID
             IN (u \in DOMAIN codes /\ ~ExpiredAt(codes, now, u)
                   /\ codes[u].code # last'.input.code
                   /\ last'.fail # "GetVerificationCode")
                => (codes' = codes /\ last'.err = ErrInvalidVerificationCode)]_vars

\* =================================================================
\* Concurrent registrations with one e-mail.
Returned23 == {p \in Procs : procs[p].pc = "done"}
Creators == {p \in Procs : procs[p].created}
OneRowPerEmail == Cardinality(RowsWithEmail(users, Credentials.email)) <= 1
\* C23 as claimed: under any interleaving of concurrent registration calls
\* with the same e-mail at most one user row with that e-mail exists, and
\* at most one call returns without an error (the one that created the
\* user) while every other call returns an error.
C23_OneWinnerOthersFail ==
  /\ OneRowPerEmail
  /\ Cardinality({p \in Returned23 : procs[p].err = Nil}) <= 1

\* C23 amended: at most one user row with that e-mail exists and at most
\* one call creates it; every other RegisterClient or RegisterStandardUser
\* call returns an error, while a SeedAdmin call that finds the e-mail
\* stored returns nil without creating anything (and the conflict error
\* when it loses at the insert).
C23_OneCreator ==
  /\ OneRowPerEmail
  /\ Cardinality(Creators) <= 1
  /\ Creators \subseteq Returned23
  /\ Creators # {} => HasEmail(users, Credentials.email)
  /\ \A p \in Returned23 :
       LET pr == procs[p]
       IN /\ pr.op \in Registers
             => /\ pr.err = Nil <=> pr.created
                /\ pr.created => (pr.user.id \in DOMAIN users /\ users[pr.user.id] = pr.user)
                /\ ~pr.created => pr.user = ZeroUser
          /\ (pr.op = "SeedAdmin" /\ ~pr.created)
             => /\ pr.err \in {Nil, ErrEmailAlreadyRegistered}
                /\ HasEmail(users, Credentials.email)
          /\ pr.created => pr.err = Nil
C23_Witness ==
  \E p \in Returned23, q \in Returned23 :
    /\ procs[p].op \in Registers /\ procs[p].created
    /\ procs[q].op \in Registers /\ procs[q].err = ErrEmailAlreadyRegistered
    /\ roles = {RoleClient, RoleUser}
    /\ OneRowPerEmail
C23_WitnessSeed ==
  \E p \in Returned23, q \in Returned23 :
    /\ p # q /\ procs[p].err = Nil /\ procs[q].err = Nil
    /\ procs[q].op = "SeedAdmin" /\ ~procs[q].created

\* =================================================================
\* Concurrent verifications of one user.
Verified24 == {p \in Procs : procs[p].pc = "done" /\ procs[p].err = Nil}
\* C24 as claimed: for one stored challenge at most one VerifyUser call
\* returns success, also when two calls with the correct code run with
\* their store steps interleaved.
C24_ChallengeSingleUse ==
  \A p \in Verified24, q \in Verified24 : procs[p].got = procs[q].got => p = q

Created == {c \in Clients : conns[c].pc # "none"}
Handed == {c \in Clients : conns[c].pc \in {"accepted", "served"}}
Turned == {c \in Clients : conns[c].pc = "rejected"}
HubWaits == hub.pc \in {"loop", "select", "stopped"}
ClosedOnce == \A c \in Clients : conns[c].closes <= 1
NoSendOnClosed == ~hub.sentOnClosed

\* C30 as stated: under any interleaving of registration, unregistration by
\* readPump, broadcast with dropping of slow clients and shutdown, each
\* client's send channel is closed at most once, the hub never sends on a
\* closed send channel, and every client whose ServeHTTP has made its offer
\* to the hub is in hub.clients exactly while its send channel is open,
\* observed whenever the hub is between two bodies of its select.
C30_InClientsIffOpen ==
  /\ ClosedOnce
  /\ NoSendOnClosed
  /\ HubWaits =>
       \A c \in Handed \cup Turned : c \in hub.clients <=> conns[c].send = "open"

\* C30 amended: each client's send channel is closed at most once and the
\* hub never sends on a closed send channel; a client in hub.clients has an
\* open send channel, a client the hub received is in hub.clients exactly
\* while its send channel is open whenever the hub is between two bodies of
\* its select, and a client ServeHTTP turned away because the hub was not
\* receiving keeps an open send channel and never enters hub.clients.
C30_ClosedOnceNoSendOnClosed ==
  /\ ClosedOnce
  /\ NoSendOnClosed
  /\ \A c \in hub.clients : conns[c].send = "open"
  /\ HubWaits => \A c \in Handed : c \in hub.clients <=> conns[c].send = "open"
  /\ \A c \in Turned : c \notin hub.clients /\ conns[c].send = "open" /\ conns[c].closes = 0

\* a slow client was dropped by a broadcast, its readPump then asked to be
\* unregistered, and the hub ran to its shutdown with a client turned away
C30_Witness ==
  /\ hub.pc = "stopped"
  /\ \E c \in Clients :
       /\ conns[c].pc = "served"
       /\ conns[c].closes = 1
       /\ conns[c].reader = "exited"
  /\ Turned # {}

\* a client removed by the unregister case while another is still registered
C30_WitnessUnregister ==
  /\ hub.pc = "select"
  /\ \E c \in Handed : conns[c].closes = 1 /\ conns[c].reader = "exited" /\ c \notin hub.clients
  /\ hub.clients # {}

====
